---- MODULE Spec2Model ----
(***************************************************************************)
(* AgriSense backend: the request pipeline                                 *)
(*   router -> protect -> authorize(role) -> controller -> document store  *)
(* One request is in the pipeline at a time; every middleware and every    *)
(* controller is one action.  Stores are sets of documents.                *)
(***************************************************************************)
EXTENDS Integers, Sequences, FiniteSets, TLC

VARIABLES
    now,          \* the clock, in seconds (what jsonwebtoken reads)
    jwtExpiresIn, \* process.env.JWT_EXPIRES_IN, a sequence of characters (<<>>: unset)
    nodeEnv,      \* process.env.NODE_ENV
    users,        \* User collection
    issued,       \* every token generateToken has signed so far
    products,     \* Product collection
    nextProduct,  \* number of product ids handed out
    created,      \* per stored product: the product createProduct answered with,
                  \* and whether it has been updated since
    analytics,    \* Analytics collection
    nextAnalytics,\* number of analytics ids handed out
    farms,        \* Farm collection (crops embedded)
    nextCrop,     \* number of crop ids handed out
    predictions,  \* YieldPrediction collection
    req,          \* the request in the pipeline
    stage,        \* where the request is: idle, protect, authorize, handler, done
    reqUser,      \* req.user: {} or {[id, role]}
    res,          \* the response sent for req
    trace,        \* the functions that have run for req, in order
    pre,          \* the stores as they were when req arrived
    kept,         \* a finished gate decision held back for comparison
    procs         \* the handlers running at once: per request, where its handler
                  \* stands between two awaits and what it holds

vars == <<now, jwtExpiresIn, nodeEnv, procs, users, issued, products, nextProduct, created, analytics,
          nextAnalytics, farms, nextCrop, predictions, req, stage, reqUser, res,
          trace, pre, kept>>

storeVars == <<users, issued, products, nextProduct, created, analytics, nextAnalytics,
               farms, nextCrop, predictions>>

(***************************************************************************)
(* Bounds of the model                                                     *)
(***************************************************************************)
MaxHeaderLen == 3
MaxProducts == 1
MaxAnalytics == 1
MaxCrops == 1
MaxPredictions == 1
MaxIssued == 2
MaxInFlight == 2

MaxRoles == 2
Absent == "<absent>"

Min(S) == CHOOSE x \in S : \A y \in S : x <= y

SeqsUpTo(S, n) == UNION {[1..k -> S] : k \in 0..n}

(***************************************************************************)
(* Roles and users                                                         *)
(***************************************************************************)
UserRole == {"farmer", "vendor", "ngo", "admin"}

UserIdPool == <<"U1", "U2", "U3", "U4", "U5", "U6", "U7", "U8">>

\* lowercase: true on userSchema.email
Lowercase(e) == IF e = "A@x" THEN "a@x" ELSE e

\* bcrypt.hash(password, salt)
BcryptHashPlain(password, salt) == [alg |-> "plain", salt |-> salt, of |-> password]

BcryptHash(password, salt) == [alg |-> "bcrypt", salt |-> salt, of |-> password]

\* bcrypt.compare(password, hash)
BcryptCompare(password, hash) == hash.alg = "bcrypt" /\ hash.of = password

Salts == {"s1", "s2"}

(***************************************************************************)
(* Tokens                                                                  *)
(***************************************************************************)
NoToken == [kind |-> "none"]

DigitValue(c) ==
    CASE c = "0" -> 0 [] c = "1" -> 1 [] c = "2" -> 2 [] c = "3" -> 3 [] c = "4" -> 4
      [] c = "5" -> 5 [] c = "6" -> 6 [] c = "7" -> 7 [] c = "8" -> 8 [] c = "9" -> 9

IsDigit(c) == c \in {"0", "1", "2", "3", "4", "5", "6", "7", "8", "9"}

\* parseInt(s): the value of the leading digits of s; -1 stands for NaN
RECURSIVE ParseDigits(_, _)
ParseDigits(s, acc) ==
    IF s = <<>> \/ ~IsDigit(Head(s)) THEN acc
    ELSE ParseDigits(Tail(s), 10 * acc + DigitValue(Head(s)))

ParseInt(s) == IF s = <<>> \/ ~IsDigit(Head(s)) THEN -1 ELSE ParseDigits(s, 0)

SecondsPerDay == 24 * 60 * 60

\* the expiresIn option of generateToken, in seconds: a number is a number of
\* seconds to jsonwebtoken, the string '30d' is thirty days
ExpiresIn(env) == IF env # <<>> THEN ParseInt(env) ELSE 30 * SecondsPerDay

\* jwt.sign(payload, secret, options) at time t
generateToken(id, role, t, env) ==
    [kind |-> "jwt", id |-> id, role |-> role, iat |-> t,
     exp |-> t + ExpiresIn(env), sig |-> "secret"]

\* a token signed with a key that is not the server's
Forged(id, role) ==
    [kind |-> "jwt", id |-> id, role |-> role, iat |-> 0,
     exp |-> 100 * SecondsPerDay, sig |-> "other"]

(***************************************************************************)
(* The Authorization header: a sequence of symbols, and the token that     *)
(* stands where the symbol "tok" is.  "Bearer" is the literal scheme word, *)
(* "sp" one space, "bearer" any other text without a space.                *)
(***************************************************************************)
HeaderSymbols == {"Bearer", "sp", "bearer", "tok"}

Header(text, t) == [text |-> text, tok |-> t]

NoHeader == Header(<<>>, NoToken)

BearerHeader(t) == Header(<<"Bearer", "sp", "tok">>, t)

HasTok(text) == \E i \in 1..Len(text) : text[i] = "tok"

\* authorization.startsWith('Bearer')
StartsWithBearer(text) == Len(text) >= 1 /\ text[1] = "Bearer"

\* authorization.split(' ')[1]; <<>> is undefined or the empty string
SplitSecond(text) ==
    LET sp == {i \in 1..Len(text) : text[i] = "sp"}
    IN  IF sp = {} THEN <<>>
        ELSE LET first == Min(sp)
                 later == {j \in sp : j > first}
                 stop  == IF later = {} THEN Len(text) + 1 ELSE Min(later)
             IN  SubSeq(text, first + 1, stop - 1)

\* the token protect reads from the header
ExtractToken(h) ==
    IF h.text # <<>> /\ StartsWithBearer(h.text) THEN SplitSecond(h.text) ELSE <<>>

\* jwt.verify(token, secret) at time t does not throw: the text is one token,
\* signed with the secret, and t is before its expiry
JwtVerifies(token, value, t) ==
    /\ token = <<"tok">>
    /\ value.kind = "jwt"
    /\ value.sig = "secret"
    /\ t < value.exp

DecodedAsFarmer(value) == [id |-> value.id, role |-> "farmer"]

\* the decoded payload
Decoded(value) == [id |-> value.id, role |-> value.role]

(***************************************************************************)
(* Routes.  router.use(protect, <role>Only) guards every route of the      *)
(* farmer, vendor and NGO routers; the user router protects the two        *)
(* profile routes and nothing else.                                        *)
(***************************************************************************)
UserRoutes == {"register", "login", "getProfile", "updateProfile"}

VendorRoutes == {"listProducts", "getProductById", "createProduct", "updateProduct",
                 "deleteProduct", "getSpoilageRisks", "getDemandForecasts"}

NgoRoutes == {"getAnalytics", "getAnalyticsById", "createAnalytics", "updateAnalytics",
              "deleteAnalytics", "exportAnalyticsData"}

FarmerRoutes == {"getFarmProfile", "updateFarmProfile", "addCrop", "updateCrop",
                 "deleteCrop", "getYieldPredictions", "requestNewPrediction"}

GatedRoutes == FarmerRoutes \cup VendorRoutes \cup NgoRoutes

NoGate == [none |-> TRUE]

\* authorize(roles) takes one role or an array of roles
OneRole(r) == [single |-> r]

RoleArray(rs) == [array |-> rs]

farmerOnly == OneRole("farmer")

vendorOnly == OneRole("vendor")

ngoOnly == OneRole("ngo")

adminOnly == OneRole("admin")

GateOfAdminToo(route) ==
    CASE route \in FarmerRoutes -> RoleArray(<<"farmer", "admin">>)
      [] route \in VendorRoutes -> RoleArray(<<"vendor", "admin">>)
      [] route \in NgoRoutes -> RoleArray(<<"ngo", "admin">>)
      [] OTHER -> NoGate

\* the role gate mounted in front of a route
GateOf(route) ==
    CASE route \in FarmerRoutes -> farmerOnly
      [] route \in VendorRoutes -> vendorOnly
      [] route \in NgoRoutes -> ngoOnly
      [] OTHER -> NoGate

\* the role a prefix is for
PrefixRole(route) ==
    CASE route \in FarmerRoutes -> "farmer"
      [] route \in VendorRoutes -> "vendor"
      [] route \in NgoRoutes -> "ngo"
      [] OTHER -> "none"

Protected(route) == route \in GatedRoutes \cup {"getProfile", "updateProfile"}

(***************************************************************************)
(* Responses                                                               *)
(***************************************************************************)
NoRes == [status |-> 0, message |-> "", token |-> NoToken, data |-> <<>>]

Reply(status, message) ==
    [status |-> status, message |-> message, token |-> NoToken, data |-> <<>>]

Json(status, data) ==
    [status |-> status, message |-> "", token |-> NoToken, data |-> data]

JsonWithToken(status, data, token) ==
    [status |-> status, message |-> "", token |-> token, data |-> data]

NoReq == [route |-> "none"]

Stores ==
    [users |-> users, issued |-> issued, products |-> products,
     analytics |-> analytics, farms |-> farms, predictions |-> predictions]

\* the response is sent and the function goes on as if it had not been
SendAndGoOn(r, fn) ==
    /\ res' = r
    /\ stage' = stage
    /\ trace' = trace

\* the response is sent and the request leaves the pipeline
Send(r, fn) ==
    /\ res' = r
    /\ stage' = "done"
    /\ trace' = Append(trace, fn)

(***************************************************************************)
(* authMiddleware: protect                                                 *)
(***************************************************************************)
ProtectDecisionAnyScheme(h, t) ==
    LET token == SplitSecond(h.text)
    IN  IF token = <<>> THEN "none"
        ELSE IF JwtVerifies(token, h.tok, t) THEN "next"
        ELSE "invalid"

\* what protect does with a header at time t: "none" (401, no token),
\* "invalid" (401, verification failed) or "next"
ProtectDecision(h, t) ==
    LET token == ExtractToken(h)
    IN  IF token = <<>> THEN "none"
        ELSE IF JwtVerifies(token, h.tok, t) THEN "next"
        ELSE "invalid"

protect ==
    /\ stage = "protect"
    /\ LET d == ProtectDecision(req.auth, now)
       IN  CASE d = "none" ->
                  /\ Send(Reply(401, "Not authorized, no token provided"), "protect")
                  /\ UNCHANGED reqUser
             [] d = "invalid" ->
                  /\ Send(Reply(401, "Not authorized, invalid token"), "protect")
                  /\ UNCHANGED reqUser
             [] d = "next" ->
                  /\ reqUser' = {Decoded(req.auth.tok)}
                  /\ stage' = IF req.gate = NoGate THEN "handler" ELSE "authorize"
                  /\ trace' = Append(trace, "protect")
                  /\ UNCHANGED res
    /\ UNCHANGED <<now, jwtExpiresIn, nodeEnv, procs, storeVars, req, pre, kept>>

(***************************************************************************)
(* authMiddleware: authorize                                               *)
(***************************************************************************)
AllowedRolesFirstOnly(roles) ==
    IF "array" \in DOMAIN roles
    THEN (IF roles.array = <<>> THEN <<>> ELSE <<roles.array[1]>>)
    ELSE <<roles.single>>

\* Array.isArray(roles) ? roles : [roles]
AllowedRoles(roles) ==
    IF "array" \in DOMAIN roles THEN roles.array ELSE <<roles.single>>

\* allowedRoles.includes(role)
Includes(list, x) == \E i \in 1..Len(list) : list[i] = x

AuthorizeDecisionByUserId(roles, user) ==
    IF user = {} THEN "401"
    ELSE LET u == CHOOSE x \in user : TRUE
         IN  IF req.uid # "U3" /\ \A i \in 1..Len(AllowedRoles(roles)) :
                                   AllowedRoles(roles)[i] # u.role
             THEN "403" ELSE "next"

\* what authorize(roles) does with req.user: 401, 403 or "next"
AuthorizeDecision(roles, user) ==
    IF user = {} THEN "401"
    ELSE LET u == CHOOSE x \in user : TRUE
         IN  IF ~Includes(AllowedRoles(roles), u.role) THEN "403" ELSE "next"

authorize ==
    /\ stage = "authorize"
    /\ LET d == AuthorizeDecision(req.gate, reqUser)
       IN  CASE d = "401" -> Send(Reply(401, "Not authorized, no user found"), "authorize")
             [] d = "403" -> Send(Reply(403, "Access denied"), "authorize")
             [] d = "next" ->
                  /\ stage' = "handler"
                  /\ trace' = Append(trace, "authorize")
                  /\ UNCHANGED res
    /\ UNCHANGED <<now, jwtExpiresIn, nodeEnv, procs, storeVars, req, reqUser, pre, kept>>

(***************************************************************************)
(* Requests                                                                *)
(***************************************************************************)
NoBody == [none |-> TRUE]

NoQuery == [none |-> TRUE]

Input(uid, param, query, body) ==
    [uid |-> uid, param |-> param, query |-> query, body |-> body]

RawEmails == {"a@x", "A@x", "b@x"}

Passwords == {"pw1", "pw2"}

RegisterBodies ==
    [name : {"n1", Absent}, email : RawEmails, password : Passwords \cup {Absent},
     role : {Absent, "vendor", "ngo", "admin", "king"}]

LoginBodies == [email : RawEmails, password : Passwords \cup {Absent}]

UpdateProfileBodies ==
    [name : {Absent, "n2"}, email : {Absent, "A@x", "b@x"}, password : {Absent, "pw2"}]

UserInputs(route) ==
    CASE route = "register" -> {Input(Absent, Absent, NoQuery, b) : b \in RegisterBodies}
      [] route = "login" -> {Input(Absent, Absent, NoQuery, b) : b \in LoginBodies}
      [] route = "updateProfile" ->
             {Input(Absent, Absent, NoQuery, b) : b \in UpdateProfileBodies}
      [] OTHER -> {Input(Absent, Absent, NoQuery, NoBody)}

\* tokens a client can put in a header: the ones the server signed, and forgeries
ForgedTokens == {Forged(UserIdPool[1], "admin")}

HeaderTexts == SeqsUpTo(HeaderSymbols, MaxHeaderLen)

\* every header of at most MaxHeaderLen symbols
AllHeaders ==
    {Header(text, NoToken) : text \in {x \in HeaderTexts : ~HasTok(x)}}
      \cup {Header(text, t) : text \in {x \in HeaderTexts : HasTok(x)},
                               t \in issued \cup ForgedTokens}

\* no header, or a well-formed one
PlainHeaders == {NoHeader} \cup {BearerHeader(t) : t \in issued \cup ForgedTokens}

Arrive(route, h, in) ==
    /\ req' = [route |-> route, gate |-> GateOf(route), auth |-> h, uid |-> in.uid,
               param |-> in.param, query |-> in.query, body |-> in.body]
    /\ stage' = IF Protected(route) THEN "protect" ELSE "handler"
    /\ reqUser' = {}
    /\ res' = NoRes
    /\ trace' = <<>>
    /\ pre' = Stores
    /\ UNCHANGED <<now, jwtExpiresIn, nodeEnv, procs, storeVars, kept>>

\* routes that sign a token are taken while fewer than MaxIssued are out
CanArrive(route) ==
    /\ stage = "idle"
    /\ route \in {"register", "login", "updateProfile"} => Cardinality(issued) < MaxIssued

NewUserRequest ==
    /\ stage = "idle"
    /\ \E route \in UserRoutes :
         \E h \in (IF Protected(route) THEN PlainHeaders ELSE {NoHeader}) :
           \E in \in UserInputs(route) :
             CanArrive(route) /\ Arrive(route, h, in)

\* the instants the clock is read at: server start, the two token lifetimes
\* (7 seconds, thirty days) and one after both
ClockValues == {0, 7, 30 * SecondsPerDay, 30 * SecondsPerDay + 7}

\* the answered request leaves; the server waits for the next one
Finish ==
    /\ stage = "done"
    /\ req' = NoReq
    /\ stage' = "idle"
    /\ reqUser' = {}
    /\ res' = NoRes
    /\ trace' = <<>>
    /\ pre' = Stores
    /\ UNCHANGED <<now, jwtExpiresIn, nodeEnv, procs, storeVars, kept>>

\* time passes between requests
Tick ==
    /\ stage = "idle"
    /\ \E t \in ClockValues : t > now /\ now' = t
    /\ pre' = Stores
    /\ UNCHANGED <<jwtExpiresIn, nodeEnv, procs, storeVars, req, stage, reqUser, res, trace, kept>>

(***************************************************************************)
(* userController                                                          *)
(***************************************************************************)
\* userSchema validation on save: required name, email, password; role in the enum
ValidUser(doc) ==
    /\ doc.name # Absent
    /\ doc.email # Absent
    /\ doc.role \in UserRole

EmailTakenNever(doc) == doc # doc

\* unique: true on userSchema.email: the index refuses a second document with
\* the same email
EmailTaken(doc) == \E o \in users : o.id # doc.id /\ o.email = doc.email

\* the fields register, login and updateProfile answer with
UserView(u) == [id |-> u.id, name |-> u.name, email |-> u.email, role |-> u.role]

\* .select('-password'): the document without its password
WithoutPassword(u) == [f \in DOMAIN u \ {"password"} |-> u[f]]

FindByEmailNothing(email) == {}

\* User.findOne({ email })
FindByEmail(email) == {u \in users : u.email = Lowercase(email)}

\* User.findById(id)
FindUserById(id) == {u \in users : u.id = id}

handlerFrame == <<now, jwtExpiresIn, nodeEnv, procs, req, reqUser, pre, kept>>

nonUserStores == <<products, nextProduct, created, analytics, nextAnalytics, farms, nextCrop,
                   predictions>>

register ==
    /\ stage = "handler" /\ req.route = "register"
    /\ LET body == req.body
           role == IF body.role = Absent THEN "farmer" ELSE body.role
           id   == UserIdPool[Cardinality(users) + 1]
       IN  IF FindByEmail(body.email) # {}
           THEN /\ Send(Reply(400, "User already exists"), "register")
                /\ UNCHANGED <<users, issued>>
           ELSE IF body.password = Absent
           THEN /\ Send(Reply(500, "Server error during registration"), "register")
                /\ UNCHANGED <<users, issued>>
           ELSE \E salt \in Salts :
                  LET doc == [id |-> id, name |-> body.name,
                              email |-> Lowercase(body.email),
                              password |-> BcryptHash(body.password, salt),
                              role |-> role]
                      token == generateToken(id, role, now, jwtExpiresIn)
                  IN  IF ~ValidUser(doc) \/ EmailTaken(doc)
                      THEN /\ Send(Reply(500, "Server error during registration"),
                                   "register")
                           /\ UNCHANGED <<users, issued>>
                      ELSE /\ users' = users \cup {doc}
                           /\ issued' = issued \cup {token}
                           /\ Send(JsonWithToken(201, <<UserView(doc)>>, token), "register")
    /\ UNCHANGED <<handlerFrame, nonUserStores>>

login ==
    /\ stage = "handler" /\ req.route = "login"
    /\ LET body  == req.body
           found == FindByEmail(body.email)
       IN  IF found = {}
           THEN /\ Send(Reply(401, "Invalid email or password"), "login")
                /\ UNCHANGED issued
           ELSE LET user == CHOOSE u \in found : TRUE
                    token == generateToken(user.id, user.role, now, jwtExpiresIn)
                IN  \* bcrypt.compare rejects a password that is not a string
                    IF body.password = Absent
                    THEN /\ Send(Reply(500, "Server error during login"), "login")
                         /\ UNCHANGED issued
                    ELSE IF ~BcryptCompare(body.password, user.password)
                    THEN /\ Send(Reply(401, "Invalid email or password"), "login")
                         /\ UNCHANGED issued
                    ELSE /\ issued' = issued \cup {token}
                         /\ Send(JsonWithToken(200, <<UserView(user)>>, token), "login")
    /\ UNCHANGED <<handlerFrame, users, nonUserStores>>

getProfile ==
    /\ stage = "handler" /\ req.route = "getProfile"
    /\ IF reqUser = {}
       THEN Send(Reply(401, "Not authorized"), "getProfile")
       ELSE LET found == FindUserById((CHOOSE x \in reqUser : TRUE).id)
            IN  IF found = {}
                THEN Send(Reply(404, "User not found"), "getProfile")
                ELSE Send(Json(200, <<WithoutPassword(CHOOSE u \in found : TRUE)>>),
                          "getProfile")
    /\ UNCHANGED <<handlerFrame, storeVars>>

Or(a, b) == IF a # Absent THEN a ELSE b

updateProfile ==
    /\ stage = "handler" /\ req.route = "updateProfile"
    /\ IF reqUser = {}
       THEN /\ Send(Reply(401, "Not authorized"), "updateProfile")
            /\ UNCHANGED <<users, issued>>
       ELSE LET found == FindUserById((CHOOSE x \in reqUser : TRUE).id)
            IN  IF found = {}
                THEN /\ Send(Reply(404, "User not found"), "updateProfile")
                     /\ UNCHANGED <<users, issued>>
                ELSE \E salt \in Salts :
                       LET user == CHOOSE u \in found : TRUE
                           body == req.body
                           doc  == [user EXCEPT
                                      !.name = Or(body.name, user.name),
                                      !.email = Lowercase(Or(body.email, user.email)),
                                      !.password =
                                          IF body.password # Absent
                                          THEN BcryptHash(body.password, salt)
                                          ELSE user.password]
                           token == generateToken(doc.id, doc.role, now, jwtExpiresIn)
                       IN  IF ~ValidUser(doc) \/ EmailTaken(doc)
                           THEN /\ Send(Reply(500, "Server error updating profile"),
                                        "updateProfile")
                                /\ UNCHANGED <<users, issued>>
                           ELSE /\ users' = (users \ {user}) \cup {doc}
                                /\ issued' = issued \cup {token}
                                /\ Send(JsonWithToken(200, <<UserView(doc)>>, token),
                                        "updateProfile")
    /\ UNCHANGED <<handlerFrame, nonUserStores>>

(***************************************************************************)
(* Product model and vendorController                                      *)
(***************************************************************************)
ProductStatus == {"available", "reserved", "sold"}

ProductCategory == {"fruits", "vegetables", "grains", "dairy", "livestock", "other"}

ProductIdPool == <<"P1", "P2", "P3", "P4", "P5", "P6">>

\* mongoose.Types.ObjectId.isValid(id), and the cast of a string to an ObjectId
IsObjectId(id) == id \notin {Absent, "zz"}

\* trim: true on productSchema.name
Trim(name) == IF name = " rice " THEN "rice" ELSE name

\* productSchema validation on Product.create; details stands for the required
\* description, unit, price, harvestDate and location
ValidProductAnything(doc) == doc = doc

ValidProduct(doc) ==
    /\ IsObjectId(doc.seller)
    /\ doc.name # Absent /\ doc.name # ""
    /\ doc.details # Absent
    /\ doc.category \in ProductCategory
    /\ doc.quantity >= 0
    /\ doc.status \in ProductStatus

\* a reference as it is serialised when it is not populated
Ref(id) == [ref |-> id]

Null == [null |-> TRUE]

PopulateSellerNothing(id) == Null

\* populate('seller', 'name phoneNumber'): the referenced user, or null
PopulateSeller(id) ==
    LET found == FindUserById(id)
    IN  IF found = {} THEN Null
        ELSE LET u == CHOOSE x \in found : TRUE IN [id |-> u.id, name |-> u.name]

\* a product as a response carries it
ProductJson(p, seller) ==
    [id |-> p.id, seller |-> seller, name |-> p.name, details |-> p.details,
     category |-> p.category, quantity |-> p.quantity,
     expiryEstimate |-> p.expiryEstimate, status |-> p.status]

\* Product.findById(id)
FindProductById(id) == {p \in products : p.id = id}

IsSellerAnyone(p, userId) == TRUE

IsSellerByToken(p, userId) == \E u \in reqUser : p.seller = u.id

\* product.seller.toString() !== userId.toString() is false
IsSeller(p, userId) == p.seller = userId

\* the elements of S in the order of their field n, highest first
RECURSIVE SortNewestFirst(_)
SortNewestFirst(S) ==
    IF S = {} THEN <<>>
    ELSE LET newest == CHOOSE x \in S : \A y \in S : y.n <= x.n
         IN  <<newest>> \o SortNewestFirst(S \ {newest})

\* the elements of S in the order they were inserted
RECURSIVE InsertionOrder(_)
InsertionOrder(S) ==
    IF S = {} THEN <<>>
    ELSE LET oldest == CHOOSE x \in S : \A y \in S : x.n <= y.n
         IN  <<oldest>> \o InsertionOrder(S \ {oldest})

MapSeq(f(_), s) == [i \in 1..Len(s) |-> f(s[i])]

vendorFrame == <<users, issued, analytics, nextAnalytics, farms, nextCrop, predictions>>

listProducts ==
    /\ stage = "handler" /\ req.route = "listProducts"
    /\ IF req.uid = Absent
       THEN Send(Reply(401, "Not authorized"), "listProducts")
       ELSE IF req.query.mine /\ ~IsObjectId(req.uid)
       THEN Send(Reply(500, "Server error"), "listProducts")
       ELSE LET match(p) ==
                    /\ req.query.status # Absent => p.status = req.query.status
                    /\ req.query.mine => p.seller = req.uid
                view(p) == ProductJson(p, PopulateSeller(p.seller))
            IN  Send(Json(200, MapSeq(view, SortNewestFirst({p \in products : match(p)}))),
                     "listProducts")
    /\ UNCHANGED <<handlerFrame, storeVars>>

getProductById ==
    /\ stage = "handler" /\ req.route = "getProductById"
    /\ IF ~IsObjectId(req.param)
       THEN Send(Reply(400, "Invalid product ID"), "getProductById")
       ELSE LET found == FindProductById(req.param)
            IN  IF found # {}
                THEN LET p == CHOOSE x \in found : TRUE
                     IN  Send(Json(200, <<ProductJson(p, PopulateSeller(p.seller))>>),
                              "getProductById")
                ELSE Send(Reply(404, "Product not found"), "getProductById")
    /\ UNCHANGED <<handlerFrame, storeVars>>

\* the document Product.create builds from the header and the body
NewProduct(id, n, userId, body) ==
    [id |-> id, n |-> n, seller |-> userId, name |-> Trim(body.name),
     details |-> body.details, category |-> body.category, quantity |-> body.quantity,
     expiryEstimate |-> body.expiryEstimate, status |-> "available"]

createProduct ==
    /\ stage = "handler" /\ req.route = "createProduct"
    /\ IF req.uid = Absent
       THEN /\ Send(Reply(401, "Not authorized"), "createProduct")
            /\ UNCHANGED <<products, nextProduct, created>>
       ELSE LET doc == NewProduct(ProductIdPool[nextProduct + 1], nextProduct + 1,
                                  req.uid, req.body)
            IN  IF ~ValidProduct(doc)
                THEN /\ Send(Reply(500, "Server error"), "createProduct")
                     /\ UNCHANGED <<products, nextProduct, created>>
                ELSE /\ products' = products \cup {doc}
                     /\ nextProduct' = nextProduct + 1
                     /\ created' = created \cup
                            {[view |-> ProductJson(doc, Ref(doc.seller)), untouched |-> TRUE]}
                     /\ Send(Json(201, <<ProductJson(doc, Ref(doc.seller))>>),
                             "createProduct")
    /\ UNCHANGED <<handlerFrame, vendorFrame>>

SetFieldsWithSeller(p, body) ==
    [p EXCEPT !.status = Or(body.status, p.status),
              !.quantity = IF body.quantity # <<>> THEN body.quantity[1] ELSE p.quantity,
              !.category = Or(body.category, p.category),
              !.seller = Or(body.seller, p.seller),
              !.id = Or(body._id, p.id)]

SetFieldsSoldOut(p, body) ==
    [p EXCEPT !.status = IF body.quantity # <<>> THEN "sold" ELSE Or(body.status, p.status),
              !.quantity = IF body.quantity # <<>> THEN body.quantity[1] ELSE p.quantity,
              !.category = Or(body.category, p.category)]

\* Object.entries(req.body).filter(([key]) => key !== 'seller' && key !== '_id'),
\* applied with $set: the fields the body carries, but for seller and _id
SetFields(p, body) ==
    [p EXCEPT !.status = Or(body.status, p.status),
              !.quantity = IF body.quantity # <<>> THEN body.quantity[1] ELSE p.quantity,
              !.category = Or(body.category, p.category)]

updateProduct ==
    /\ stage = "handler" /\ req.route = "updateProduct"
    /\ IF req.uid = Absent
       THEN /\ Send(Reply(401, "Not authorized"), "updateProduct")
            /\ UNCHANGED <<products, created>>
       ELSE IF ~IsObjectId(req.param)
       THEN /\ Send(Reply(400, "Invalid product ID"), "updateProduct")
            /\ UNCHANGED <<products, created>>
       ELSE LET found == FindProductById(req.param)
            IN  IF found = {}
                THEN /\ Send(Reply(404, "Product not found"), "updateProduct")
                     /\ UNCHANGED <<products, created>>
                ELSE LET p == CHOOSE x \in found : TRUE
                         q == SetFields(p, req.body)
                     IN  IF ~IsSeller(p, req.uid)
                         THEN /\ Send(Reply(403, "Not authorized to update this product"),
                                      "updateProduct")
                              /\ UNCHANGED <<products, created>>
                         ELSE /\ products' = (products \ {p}) \cup {q}
                              /\ created' = {[c EXCEPT !.untouched =
                                                 IF c.view.id = p.id THEN FALSE ELSE @] :
                                             c \in created}
                              /\ Send(Json(200, <<ProductJson(q, Ref(q.seller))>>),
                                      "updateProduct")
    /\ UNCHANGED <<handlerFrame, vendorFrame, nextProduct>>

deleteProduct ==
    /\ stage = "handler" /\ req.route = "deleteProduct"
    /\ IF req.uid = Absent
       THEN /\ Send(Reply(401, "Not authorized"), "deleteProduct")
            /\ UNCHANGED <<products, created>>
       ELSE IF ~IsObjectId(req.param)
       THEN /\ Send(Reply(400, "Invalid product ID"), "deleteProduct")
            /\ UNCHANGED <<products, created>>
       ELSE LET found == FindProductById(req.param)
            IN  IF found = {}
                THEN /\ Send(Reply(404, "Product not found"), "deleteProduct")
                     /\ UNCHANGED <<products, created>>
                ELSE LET p == CHOOSE x \in found : TRUE
                     IN  IF ~IsSeller(p, req.uid)
                         THEN /\ Send(Reply(403, "Not authorized to delete this product"),
                                      "deleteProduct")
                              /\ UNCHANGED <<products, created>>
                         ELSE /\ products' = products \ {p}
                              /\ created' = {c \in created : c.view.id # p.id}
                              /\ Send(Reply(200, "Product removed"), "deleteProduct")
    /\ UNCHANGED <<handlerFrame, vendorFrame, nextProduct>>

\* Math.floor((expiryDate - currentDate) / (1000 * 60 * 60 * 24))
DaysUntilExpiry(expiry, t) == (expiry - t) \div SecondsPerDay

RiskLevelInclusive(days) ==
    IF days <= 3 THEN "critical"
    ELSE IF days <= 7 THEN "high"
    ELSE IF days <= 14 THEN "medium"
    ELSE "low"

RiskLevel(days) ==
    IF days < 3 THEN "critical"
    ELSE IF days < 7 THEN "high"
    ELSE IF days < 14 THEN "medium"
    ELSE "low"

\* riskScore, in tenths
RiskScore(days) ==
    IF days < 3 THEN 9
    ELSE IF days < 7 THEN 7
    ELSE IF days < 14 THEN 4
    ELSE 1

getSpoilageRisks ==
    /\ stage = "handler" /\ req.route = "getSpoilageRisks"
    /\ IF req.uid = Absent
       THEN Send(Reply(401, "Not authorized"), "getSpoilageRisks")
       ELSE IF ~IsObjectId(req.uid)
       THEN Send(Reply(500, "Server error"), "getSpoilageRisks")
       ELSE LET mine == {p \in products : p.seller = req.uid /\ p.status # "sold"}
                risk(p) ==
                    LET days == DaysUntilExpiry(p.expiryEstimate, now)
                    IN  [productId |-> p.id, productName |-> p.name,
                         expiryDate |-> p.expiryEstimate, daysUntilExpiry |-> days,
                         riskScore |-> RiskScore(days), riskLevel |-> RiskLevel(days)]
            IN  Send(Json(200, MapSeq(risk, InsertionOrder(mine))), "getSpoilageRisks")
    /\ UNCHANGED <<handlerFrame, storeVars>>

\* demandScore = Math.random(): above 0.7, below 0.3, or between
DemandTrend(bucket) ==
    CASE bucket = "above" -> "increasing"
      [] bucket = "below" -> "decreasing"
      [] OTHER -> "stable"

getDemandForecasts ==
    /\ stage = "handler" /\ req.route = "getDemandForecasts"
    /\ IF req.uid = Absent
       THEN Send(Reply(401, "Not authorized"), "getDemandForecasts")
       ELSE \E bucket \in {"above", "below", "between"} :
              Send(Json(200, <<[demandTrend |-> DemandTrend(bucket)]>>),
                   "getDemandForecasts")
    /\ UNCHANGED <<handlerFrame, storeVars>>

\* what a vendor request can carry
VendorUserIds == {Absent, "U2", "U9", "zz"}

ProductParams == {"P1", "P2", "zz"}

ExpiryEstimates == {2 * SecondsPerDay, 10 * SecondsPerDay}

GoodProduct(name, expiry) ==
    [name |-> name, details |-> "d", category |-> "fruits", quantity |-> 5,
     expiryEstimate |-> expiry]

CreateProductBodies ==
    {GoodProduct(name, e) : name \in {"rice", " rice "}, e \in ExpiryEstimates}
      \cup {[GoodProduct("rice", 10 * SecondsPerDay) EXCEPT !.category = "bogus"],
            [GoodProduct("rice", 10 * SecondsPerDay) EXCEPT !.quantity = -1],
            [GoodProduct("rice", 10 * SecondsPerDay) EXCEPT !.details = Absent]}

\* quantity is a number: <<>> when the body has none, <<q>> otherwise
NoFields == [status |-> Absent, quantity |-> <<>>, category |-> Absent,
             seller |-> Absent, _id |-> Absent]

UpdateProductBodies ==
    {NoFields,
     [NoFields EXCEPT !.status = "sold"],
     [NoFields EXCEPT !.status = "bogus"],
     [NoFields EXCEPT !.quantity = <<-1>>],
     [NoFields EXCEPT !.category = "bogus"],
     [NoFields EXCEPT !.seller = "U9", !._id = "P2"]}

ListQueries == [mine : BOOLEAN, status : {Absent, "sold"}]

VendorInputs(route) ==
    CASE route = "listProducts" ->
             {Input(u, Absent, q, NoBody) : u \in VendorUserIds, q \in ListQueries}
      [] route = "getProductById" ->
             {Input(u, p, NoQuery, NoBody) : u \in {Absent, "U2"}, p \in ProductParams}
      [] route = "createProduct" ->
             {Input(u, Absent, NoQuery, b) : u \in VendorUserIds, b \in CreateProductBodies}
      [] route = "updateProduct" ->
             {Input(u, p, NoQuery, b) :
                u \in VendorUserIds, p \in ProductParams, b \in UpdateProductBodies}
      [] route = "deleteProduct" ->
             {Input(u, p, NoQuery, NoBody) : u \in VendorUserIds, p \in ProductParams}
      [] OTHER -> {Input(u, Absent, NoQuery, NoBody) : u \in VendorUserIds}

\* no header, or a token of the given role or of the admin
RoleHeaders(role) ==
    {NoHeader} \cup {BearerHeader(t) : t \in {x \in issued : x.role \in {role, "admin"}}}

NewVendorRequest ==
    /\ stage = "idle"
    /\ \E route \in VendorRoutes :
         \E h \in RoleHeaders("vendor") :
           \E in \in VendorInputs(route) :
             /\ CanArrive(route)
             /\ route = "createProduct" => nextProduct < MaxProducts
             /\ Arrive(route, h, in)

(***************************************************************************)
(* Analytics model and ngoController                                       *)
(***************************************************************************)
AnalyticsType == {"yield", "waste", "market", "distribution", "environmental"}

AnalyticsIdPool == <<"A1", "A2", "A3", "A4", "A5", "A6">>

\* analyticsSchema validation on save; content stands for the required title,
\* description and timeframe
ValidAnalytics(doc) ==
    /\ doc.content # Absent
    /\ doc.type \in AnalyticsType

\* Analytics.findById(id)
FindAnalyticsById(id) == {a \in analytics : a.id = id}

\* analytics.accessRights.restrictedTo?.includes(userId.toString())
InRestrictedTo(a, userId) == Includes(a.restrictedTo, userId)

HasAccessAlways(a, userId) == TRUE

\* !(!accessRights.public && !restrictedTo.includes(userId)), the check of
\* getAnalyticsById and exportAnalyticsData
HasAccess(a, userId) == a.public \/ InRestrictedTo(a, userId)

\* { 'accessRights.public': true } or { 'accessRights.restrictedTo': userId },
\* the $or filter of getAnalytics
MatchesAccessFilter(a, userId) == a.public = TRUE \/ Includes(a.restrictedTo, userId)

AnalyticsJson(a) ==
    [id |-> a.id, type |-> a.type, content |-> a.content, public |-> a.public,
     restrictedTo |-> a.restrictedTo]

\* the fields the JSON export carries
ExportJson(a) == [type |-> a.type, content |-> a.content]

ngoFrame == <<users, issued, products, nextProduct, created, farms, nextCrop, predictions>>

getAnalytics ==
    /\ stage = "handler" /\ req.route = "getAnalytics"
    /\ IF req.uid = Absent
       THEN Send(Reply(401, "Not authorized"), "getAnalytics")
       ELSE LET match(a) ==
                    /\ req.query.type # Absent => a.type = req.query.type
                    /\ MatchesAccessFilter(a, req.uid)
            IN  Send(Json(200, MapSeq(AnalyticsJson,
                                      SortNewestFirst({a \in analytics : match(a)}))),
                     "getAnalytics")
    /\ UNCHANGED <<handlerFrame, storeVars>>

getAnalyticsById ==
    /\ stage = "handler" /\ req.route = "getAnalyticsById"
    /\ IF req.uid = Absent
       THEN Send(Reply(401, "Not authorized"), "getAnalyticsById")
       ELSE IF ~IsObjectId(req.param)
       THEN Send(Reply(400, "Invalid analytics ID"), "getAnalyticsById")
       ELSE LET found == FindAnalyticsById(req.param)
            IN  IF found = {}
                THEN Send(Reply(404, "Analytics not found"), "getAnalyticsById")
                ELSE LET a == CHOOSE x \in found : TRUE
                     IN  IF ~HasAccess(a, req.uid)
                         THEN Send(Reply(403, "Not authorized to access these analytics"),
                                   "getAnalyticsById")
                         ELSE Send(Json(200, <<AnalyticsJson(a)>>), "getAnalyticsById")
    /\ UNCHANGED <<handlerFrame, storeVars>>

\* an optional body field is <<>> when missing and <<value>> when present;
\* restrictedTo || []
ArrayOr(x) == IF x = <<>> THEN <<>> ELSE x[1]

NewAnalyticsListsCreator(id, n, userId, body) ==
    [id |-> id, n |-> n, type |-> body.type, content |-> body.content,
     public |-> body.accessRights[1].public,
     restrictedTo |-> Append(ArrayOr(body.accessRights[1].restrictedTo), userId)]

\* the document Analytics.create builds: restrictedTo is undefined when the
\* body says public, the body's list with the caller appended otherwise; the
\* schema stores a missing public as false and a missing array as []
NewAnalytics(id, n, userId, body) ==
    [id |-> id, n |-> n, type |-> body.type, content |-> body.content,
     public |-> body.accessRights[1].public,
     restrictedTo |->
         IF body.accessRights[1].public THEN <<>>
         ELSE Append(ArrayOr(body.accessRights[1].restrictedTo), userId)]

createAnalytics ==
    /\ stage = "handler" /\ req.route = "createAnalytics"
    /\ IF req.uid = Absent
       THEN /\ Send(Reply(401, "Not authorized"), "createAnalytics")
            /\ UNCHANGED <<analytics, nextAnalytics>>
       ELSE IF req.body.accessRights = <<>>
       THEN /\ Send(Reply(500, "Server error"), "createAnalytics")
            /\ UNCHANGED <<analytics, nextAnalytics>>
       ELSE LET doc == NewAnalytics(AnalyticsIdPool[nextAnalytics + 1], nextAnalytics + 1,
                                    req.uid, req.body)
            IN  IF ~ValidAnalytics(doc)
                THEN /\ Send(Reply(500, "Server error"), "createAnalytics")
                     /\ UNCHANGED <<analytics, nextAnalytics>>
                ELSE /\ analytics' = analytics \cup {doc}
                     /\ nextAnalytics' = nextAnalytics + 1
                     /\ Send(Json(201, <<AnalyticsJson(doc)>>), "createAnalytics")
    /\ UNCHANGED <<handlerFrame, ngoFrame>>

UpdatedAnalyticsAsSent(a, userId, body) ==
    [a EXCEPT
       !.content = Or(body.content, a.content),
       !.public = IF body.accessRights = <<>> THEN a.public
                  ELSE body.accessRights[1].public,
       !.restrictedTo = IF body.accessRights = <<>> THEN a.restrictedTo
                        ELSE ArrayOr(body.accessRights[1].restrictedTo)]

\* Object.keys(req.body).forEach(key => analytics[key] = req.body[key]), then
\* the caller is put back on restrictedTo when the result is neither public nor
\* lists the caller
UpdatedAnalytics(a, userId, body) ==
    LET set == [a EXCEPT
                  !.content = Or(body.content, a.content),
                  !.public = IF body.accessRights = <<>> THEN a.public
                             ELSE body.accessRights[1].public,
                  !.restrictedTo = IF body.accessRights = <<>> THEN a.restrictedTo
                                   ELSE ArrayOr(body.accessRights[1].restrictedTo)]
    IN  IF ~set.public /\ ~Includes(set.restrictedTo, userId)
        THEN [set EXCEPT !.restrictedTo = Append(set.restrictedTo, userId)]
        ELSE set

updateAnalytics ==
    /\ stage = "handler" /\ req.route = "updateAnalytics"
    /\ IF req.uid = Absent
       THEN /\ Send(Reply(401, "Not authorized"), "updateAnalytics")
            /\ UNCHANGED analytics
       ELSE IF ~IsObjectId(req.param)
       THEN /\ Send(Reply(400, "Invalid analytics ID"), "updateAnalytics")
            /\ UNCHANGED analytics
       ELSE LET found == FindAnalyticsById(req.param)
            IN  IF found = {}
                THEN /\ Send(Reply(404, "Analytics not found"), "updateAnalytics")
                     /\ UNCHANGED analytics
                ELSE LET a == CHOOSE x \in found : TRUE
                         b == UpdatedAnalytics(a, req.uid, req.body)
                     IN  IF ~InRestrictedTo(a, req.uid)
                         THEN /\ Send(Reply(403, "Not authorized to update these analytics"),
                                      "updateAnalytics")
                              /\ UNCHANGED analytics
                         ELSE IF ~ValidAnalytics(b)
                         THEN /\ Send(Reply(500, "Server error"), "updateAnalytics")
                              /\ UNCHANGED analytics
                         ELSE /\ analytics' = (analytics \ {a}) \cup {b}
                              /\ Send(Json(200, <<AnalyticsJson(b)>>), "updateAnalytics")
    /\ UNCHANGED <<handlerFrame, ngoFrame, nextAnalytics>>

deleteAnalytics ==
    /\ stage = "handler" /\ req.route = "deleteAnalytics"
    /\ IF req.uid = Absent
       THEN /\ Send(Reply(401, "Not authorized"), "deleteAnalytics")
            /\ UNCHANGED analytics
       ELSE IF ~IsObjectId(req.param)
       THEN /\ Send(Reply(400, "Invalid analytics ID"), "deleteAnalytics")
            /\ UNCHANGED analytics
       ELSE LET found == FindAnalyticsById(req.param)
            IN  IF found = {}
                THEN /\ Send(Reply(404, "Analytics not found"), "deleteAnalytics")
                     /\ UNCHANGED analytics
                ELSE LET a == CHOOSE x \in found : TRUE
                     IN  IF ~InRestrictedTo(a, req.uid)
                         THEN /\ Send(Reply(403, "Not authorized to delete these analytics"),
                                      "deleteAnalytics")
                              /\ UNCHANGED analytics
                         ELSE /\ analytics' = analytics \ {a}
                              /\ Send(Reply(200, "Analytics removed"), "deleteAnalytics")
    /\ UNCHANGED <<handlerFrame, ngoFrame, nextAnalytics>>

exportAnalyticsData ==
    /\ stage = "handler" /\ req.route = "exportAnalyticsData"
    /\ IF req.uid = Absent
       THEN Send(Reply(401, "Not authorized"), "exportAnalyticsData")
       ELSE IF ~IsObjectId(req.param)
       THEN Send(Reply(400, "Invalid analytics ID"), "exportAnalyticsData")
       ELSE LET found == FindAnalyticsById(req.param)
            IN  IF found = {}
                THEN Send(Reply(404, "Analytics not found"), "exportAnalyticsData")
                ELSE LET a == CHOOSE x \in found : TRUE
                     IN  IF ~HasAccess(a, req.uid)
                         THEN Send(Reply(403, "Not authorized to access these analytics"),
                                   "exportAnalyticsData")
                         ELSE IF req.query.format = "csv"
                         THEN Send([Json(200, <<AnalyticsJson(a)>>) EXCEPT
                                      !.message = "CSV export would be generated here"],
                                   "exportAnalyticsData")
                         ELSE Send(Json(200, <<ExportJson(a)>>), "exportAnalyticsData")
    /\ UNCHANGED <<handlerFrame, storeVars>>

\* what an NGO request can carry
NgoUserIds == {Absent, "U3", "U9"}

AnalyticsParams == {"A1", "A2", "zz"}

AccessRights ==
    [public : {TRUE, FALSE}, restrictedTo : {<<>>, << <<>> >>, << <<"U9">> >>}]

CreateAnalyticsBodies ==
    [type : {"yield"}, content : {"c1"}, accessRights : {<<a>> : a \in AccessRights}]
      \cup {[type |-> "yield", content |-> "c1", accessRights |-> <<>>],
            [type |-> "yield", content |-> Absent,
             accessRights |-> <<[public |-> FALSE, restrictedTo |-> <<>>]>>],
            [type |-> "bogus", content |-> "c1",
             accessRights |-> <<[public |-> FALSE, restrictedTo |-> <<>>]>>]}

UpdateAnalyticsBodies ==
    [content : {Absent, "c2"}, accessRights : {<<>>}]
      \cup [content : {Absent}, accessRights : {<<a>> : a \in AccessRights}]

NgoInputs(route) ==
    CASE route = "getAnalytics" ->
             {Input(u, Absent, [type |-> t], NoBody) :
                u \in NgoUserIds, t \in {Absent, "waste"}}
      [] route = "createAnalytics" ->
             {Input(u, Absent, NoQuery, b) : u \in NgoUserIds, b \in CreateAnalyticsBodies}
      [] route = "updateAnalytics" ->
             {Input(u, p, NoQuery, b) :
                u \in NgoUserIds, p \in AnalyticsParams, b \in UpdateAnalyticsBodies}
      [] route = "exportAnalyticsData" ->
             {Input(u, p, [format |-> f], NoBody) :
                u \in NgoUserIds, p \in AnalyticsParams, f \in {"json", "csv"}}
      [] OTHER -> {Input(u, p, NoQuery, NoBody) : u \in NgoUserIds, p \in AnalyticsParams}

NewNgoRequest ==
    /\ stage = "idle"
    /\ \E route \in NgoRoutes :
         \E h \in RoleHeaders("ngo") :
           \E in \in NgoInputs(route) :
             /\ CanArrive(route)
             /\ route = "createAnalytics" => nextAnalytics < MaxAnalytics
             /\ Arrive(route, h, in)

(***************************************************************************)
(* Farm and YieldPrediction models and farmerController                    *)
(***************************************************************************)
FarmIdPool == <<"F1", "F2", "F3", "F4">>

CropIdPool == <<"K1", "K2", "K3", "K4", "K5", "K6">>

PredictionIdPool == <<"Y1", "Y2", "Y3", "Y4", "Y5", "Y6">>

\* cropSchema validation: required name, plantingDate and area; rest stands
\* for the planting date and the area
ValidCrop(c) == c.name \notin {Absent, ""} /\ c.rest # Absent

\* farmSchema validation on save: required name, location and size (details),
\* and every embedded crop valid
ValidFarm(f) ==
    /\ f.name \notin {Absent, ""}
    /\ f.details # Absent
    /\ \A i \in 1..Len(f.crops) : ValidCrop(f.crops[i])

FindFarmOfAnyone(owner) == farms

\* Farm.findOne({ owner: req.user.id })
FindFarmByOwner(owner) == {f \in farms : f.owner = owner}

\* the id of the user protect attached
Caller == (CHOOSE u \in reqUser : TRUE).id

farmerFrame ==
    <<users, issued, products, nextProduct, created, analytics, nextAnalytics>>

getFarmProfile ==
    /\ stage = "handler" /\ req.route = "getFarmProfile"
    /\ IF reqUser = {}
       THEN Send(Reply(401, "Not authorized"), "getFarmProfile")
       ELSE LET found == FindFarmByOwner(Caller)
            IN  IF found # {}
                THEN Send(Json(200, <<CHOOSE f \in found : TRUE>>), "getFarmProfile")
                ELSE Send(Reply(404, "Farm not found"), "getFarmProfile")
    /\ UNCHANGED <<handlerFrame, storeVars>>

updateFarmProfile ==
    /\ stage = "handler" /\ req.route = "updateFarmProfile"
    /\ IF reqUser = {}
       THEN /\ Send(Reply(401, "Not authorized"), "updateFarmProfile")
            /\ UNCHANGED farms
       ELSE LET found == FindFarmByOwner(Caller)
            IN  IF found # {}
                THEN LET farm == CHOOSE f \in found : TRUE
                         updatedFarm == [farm EXCEPT
                                           !.name = Or(req.body.name, farm.name),
                                           !.details = Or(req.body.details, farm.details)]
                     IN  IF ~ValidFarm(updatedFarm)
                         THEN /\ Send(Reply(500, "Server error updating farm profile"),
                                      "updateFarmProfile")
                              /\ UNCHANGED farms
                         ELSE /\ farms' = (farms \ {farm}) \cup {updatedFarm}
                              /\ Send(Json(200, <<updatedFarm>>), "updateFarmProfile")
                ELSE LET farm == [id |-> FarmIdPool[Cardinality(farms) + 1],
                                  owner |-> Caller, name |-> req.body.name,
                                  details |-> req.body.details, crops |-> <<>>]
                     IN  IF ~ValidFarm(farm)
                         THEN /\ Send(Reply(500, "Server error updating farm profile"),
                                      "updateFarmProfile")
                              /\ UNCHANGED farms
                         ELSE /\ farms' = farms \cup {farm}
                              /\ Send(Json(201, <<farm>>), "updateFarmProfile")
    /\ UNCHANGED <<handlerFrame, farmerFrame, nextCrop, predictions>>

addCrop ==
    /\ stage = "handler" /\ req.route = "addCrop"
    /\ IF reqUser = {}
       THEN /\ Send(Reply(401, "Not authorized"), "addCrop")
            /\ UNCHANGED <<farms, nextCrop>>
       ELSE LET found == FindFarmByOwner(Caller)
            IN  IF found = {}
                THEN /\ Send(Reply(404, "Farm not found. Please create a farm profile first."),
                             "addCrop")
                     /\ UNCHANGED <<farms, nextCrop>>
                ELSE LET farm == CHOOSE f \in found : TRUE
                         newCrop == [id |-> CropIdPool[nextCrop + 1],
                                     name |-> req.body.name, rest |-> req.body.rest]
                         updatedFarm == [farm EXCEPT !.crops = Append(farm.crops, newCrop)]
                     IN  \* the pushed subdocument gets its _id before save validates
                         /\ nextCrop' = nextCrop + 1
                         /\ IF ~ValidFarm(updatedFarm)
                            THEN /\ Send(Reply(500, "Server error adding crop"), "addCrop")
                                 /\ UNCHANGED farms
                            ELSE /\ farms' = (farms \ {farm}) \cup {updatedFarm}
                                 /\ Send(Json(201, <<newCrop>>), "addCrop")
    /\ UNCHANGED <<handlerFrame, farmerFrame, predictions>>

\* farm.crops.findIndex(crop => crop._id.toString() === cropId), 0 for -1
CropIndex(farm, cropId) ==
    LET hits == {i \in 1..Len(farm.crops) : farm.crops[i].id = cropId}
    IN  IF hits = {} THEN 0 ELSE CHOOSE i \in hits : \A j \in hits : i <= j

updateCrop ==
    /\ stage = "handler" /\ req.route = "updateCrop"
    /\ IF reqUser = {}
       THEN /\ Send(Reply(401, "Not authorized"), "updateCrop")
            /\ UNCHANGED farms
       ELSE LET found == FindFarmByOwner(Caller)
            IN  IF found = {}
                THEN /\ Send(Reply(404, "Farm not found"), "updateCrop")
                     /\ UNCHANGED farms
                ELSE LET farm == CHOOSE f \in found : TRUE
                         cropIndex == CropIndex(farm, req.param)
                     IN  IF cropIndex = 0
                         THEN /\ Send(Reply(404, "Crop not found"), "updateCrop")
                              /\ UNCHANGED farms
                         ELSE LET crop == farm.crops[cropIndex]
                                  set == [crop EXCEPT !.name = Or(req.body.name, crop.name)]
                                  updatedFarm == [farm EXCEPT !.crops[cropIndex] = set]
                              IN  IF ~ValidFarm(updatedFarm)
                                  THEN /\ Send(Reply(500, "Server error updating crop"),
                                               "updateCrop")
                                       /\ UNCHANGED farms
                                  ELSE /\ farms' = (farms \ {farm}) \cup {updatedFarm}
                                       /\ Send(Json(200, <<set>>), "updateCrop")
    /\ UNCHANGED <<handlerFrame, farmerFrame, nextCrop, predictions>>

WithoutCropUpTo(crops, cropId) ==
    IF \E i \in 1..Len(crops) : crops[i].id = cropId
    THEN SubSeq(crops, 1 + Min({i \in 1..Len(crops) : crops[i].id = cropId}), Len(crops))
    ELSE crops

\* farm.crops.filter(crop => crop._id.toString() !== cropId)
WithoutCrop(crops, cropId) == SelectSeq(crops, LAMBDA c : c.id # cropId)

deleteCrop ==
    /\ stage = "handler" /\ req.route = "deleteCrop"
    /\ IF reqUser = {}
       THEN /\ Send(Reply(401, "Not authorized"), "deleteCrop")
            /\ UNCHANGED farms
       ELSE LET found == FindFarmByOwner(Caller)
            IN  IF found = {}
                THEN /\ Send(Reply(404, "Farm not found"), "deleteCrop")
                     /\ UNCHANGED farms
                ELSE LET farm == CHOOSE f \in found : TRUE
                         updatedFarm == [farm EXCEPT
                                           !.crops = WithoutCrop(farm.crops, req.param)]
                     IN  /\ farms' = (farms \ {farm}) \cup {updatedFarm}
                         /\ Send(Reply(200, "Crop removed successfully"), "deleteCrop")
    /\ UNCHANGED <<handlerFrame, farmerFrame, nextCrop, predictions>>

getYieldPredictions ==
    /\ stage = "handler" /\ req.route = "getYieldPredictions"
    /\ IF reqUser = {}
       THEN Send(Reply(401, "Not authorized"), "getYieldPredictions")
       ELSE LET found == FindFarmByOwner(Caller)
            IN  IF found = {}
                THEN Send(Reply(404, "Farm not found"), "getYieldPredictions")
                ELSE LET farm == CHOOSE f \in found : TRUE
                     IN  Send(Json(200, InsertionOrder({y \in predictions :
                                                          y.farm = farm.id})),
                              "getYieldPredictions")
    /\ UNCHANGED <<handlerFrame, storeVars>>

\* the keys of mockPrediction.recommendations
MockRecommendations ==
    {"irrigationSchedule", "fertilizers", "pestManagement", "harvestingDate"}

\* the keys yieldPredictionSchema declares under recommendations; a strict
\* schema drops every other key
SchemaRecommendations == {"irrigationSchedule", "fertilizers", "pestControl", "harvestTime"}

\* Math.floor(Math.random() * 5000) + 3000, at its ends
ExpectedYields == {3000, 7999}

\* yieldPredictionSchema validation: required farm, crop.name, crop.area
\* (expectedYield and yieldUnit are always given)
ValidPrediction(y) == y.cropName \notin {Absent, ""} /\ y.cropArea # Absent

MockPrediction(id, n, farm, body, expectedYield) ==
    [id |-> id, n |-> n, farm |-> farm.id, cropName |-> body.cropName,
     cropArea |-> body.cropArea, expectedYield |-> expectedYield,
     lowerBound |-> (expectedYield * 9) \div 10,
     upperBound |-> (expectedYield * 11) \div 10,
     recommendations |-> MockRecommendations \cap SchemaRecommendations]

requestNewPrediction ==
    /\ stage = "handler" /\ req.route = "requestNewPrediction"
    /\ IF reqUser = {}
       THEN /\ Send(Reply(401, "Not authorized"), "requestNewPrediction")
            /\ UNCHANGED predictions
       ELSE LET found == FindFarmByOwner(Caller)
            IN  IF found = {}
                THEN /\ Send(Reply(404, "Farm not found"), "requestNewPrediction")
                     /\ UNCHANGED predictions
                ELSE \E expectedYield \in ExpectedYields :
                       LET farm == CHOOSE f \in found : TRUE
                           n == Cardinality(predictions) + 1
                           prediction == MockPrediction(PredictionIdPool[n], n, farm,
                                                        req.body, expectedYield)
                       IN  IF ~ValidPrediction(prediction)
                           THEN /\ Send(Reply(500, "Server error requesting new prediction"),
                                        "requestNewPrediction")
                                /\ UNCHANGED predictions
                           ELSE /\ predictions' = predictions \cup {prediction}
                                /\ Send(Json(201, <<prediction>>), "requestNewPrediction")
    /\ UNCHANGED <<handlerFrame, farmerFrame, farms, nextCrop>>

\* what a farmer request can carry
FarmBodies == [name : {Absent, "f1", "f2"}, details : {Absent, "d1"}]

AddCropBodies == [name : {Absent, "maize"}, rest : {Absent, "r1"}]

UpdateCropBodies == [name : {Absent, "rice", ""}]

PredictionBodies == [cropName : {Absent, "maize"}, cropArea : {Absent, "a1"}]

CropParams == {"K1", "K2", "zz"}

FarmerInputs(route) ==
    CASE route = "updateFarmProfile" ->
             {Input(Absent, Absent, NoQuery, b) : b \in FarmBodies}
      [] route = "addCrop" -> {Input(Absent, Absent, NoQuery, b) : b \in AddCropBodies}
      [] route = "updateCrop" ->
             {Input(Absent, p, NoQuery, b) : p \in CropParams, b \in UpdateCropBodies}
      [] route = "deleteCrop" -> {Input(Absent, p, NoQuery, NoBody) : p \in CropParams}
      [] route = "requestNewPrediction" ->
             {Input(Absent, Absent, NoQuery, b) : b \in PredictionBodies}
      [] OTHER -> {Input(Absent, Absent, NoQuery, NoBody)}

\* the stores stay within the bounds
RoomFor(route) ==
    /\ route = "createProduct" => nextProduct < MaxProducts
    /\ route = "createAnalytics" => nextAnalytics < MaxAnalytics
    /\ route = "addCrop" => nextCrop < MaxCrops
    /\ route = "requestNewPrediction" => Cardinality(predictions) < MaxPredictions

NewFarmerRequest ==
    /\ stage = "idle"
    /\ \E route \in FarmerRoutes :
         \E h \in RoleHeaders("farmer") :
           \E in \in FarmerInputs(route) :
             CanArrive(route) /\ RoomFor(route) /\ Arrive(route, h, in)

(***************************************************************************)
(* Requests to the gated routers and to the middleware on its own          *)
(***************************************************************************)
AreaInputs(route) ==
    CASE route \in VendorRoutes -> VendorInputs(route)
      [] route \in NgoRoutes -> NgoInputs(route)
      [] route \in FarmerRoutes -> FarmerInputs(route)
      [] OTHER -> UserInputs(route)

\* one body per route that its controller accepts
DirectBodies ==
    {NoBody, GoodProduct("rice", 10 * SecondsPerDay), [NoFields EXCEPT !.status = "sold"],
     [type |-> "yield", content |-> "c1",
      accessRights |-> <<[public |-> FALSE, restrictedTo |-> <<>>]>>],
     [content |-> "c2", accessRights |-> <<>>],
     [name |-> "f1", details |-> "d1"], [name |-> "maize", rest |-> "r1"],
     [name |-> "rice"], [cropName |-> "maize", cropArea |-> "a1"]}

\* the inputs that name the seeded vendor or NGO and the first document
DirectInputs(route) ==
    {in \in AreaInputs(route) :
       /\ in.uid \in {Absent, "U2", "U3"}
       /\ in.param \in {Absent, "P1", "A1", "K1"}
       /\ in.body \in DirectBodies
       /\ in.query \in {NoQuery, [type |-> Absent], [format |-> "json"],
                        [mine |-> FALSE, status |-> Absent]}
       /\ route \in VendorRoutes \cup NgoRoutes => in.uid # Absent}

\* a request to any route of the three gated routers, with any token
NewGatedRequest ==
    /\ stage = "idle"
    /\ \E route \in GatedRoutes :
         \E h \in PlainHeaders :
           \E in \in DirectInputs(route) :
             CanArrive(route) /\ RoomFor(route) /\ Arrive(route, h, in)

\* the routes the middleware is exercised on: one per gate, and one that is
\* protected without a role gate
AuthRoutes == {"getProfile", "getFarmProfile", "createProduct", "deleteProduct",
               "getAnalytics"}

\* a request with any Authorization header
NewAuthRequest ==
    /\ stage = "idle"
    /\ \E route \in AuthRoutes :
         \E h \in AllHeaders :
           \E in \in DirectInputs(route) :
             CanArrive(route) /\ RoomFor(route) /\ Arrive(route, h, in)

\* headers for comparing gate decisions: the well-formed ones, and some that
\* carry no token or a mangled one
GateHeaders ==
    PlainHeaders
      \cup {Header(<<"Bearer">>, NoToken), Header(<<"Bearer", "sp", "bearer">>, NoToken)}
      \cup {Header(<<"bearer", "sp", "tok">>, t) : t \in issued}

GateRoutes == {"getFarmProfile", "createProduct", "deleteProduct", "getAnalytics"}

GateInputs(route) ==
    {in \in AreaInputs(route) :
       /\ in.uid \in {Absent, "U2", "U3"}
       /\ in.param \in {Absent, "P1"}
       /\ in.body \in DirectBodies
       /\ in.query \in {NoQuery, [type |-> Absent]}}

NewGateRequest ==
    /\ stage = "idle"
    /\ \E route \in GateRoutes :
         \E h \in GateHeaders :
           \E in \in GateInputs(route) :
             CanArrive(route) /\ RoomFor(route) /\ Arrive(route, h, in)

\* the gate has let the request through to its controller
GateAccepted ==
    /\ Len(trace) >= 2 /\ trace[1] = "protect" /\ trace[2] = "authorize"
    /\ stage \in {"handler", "done"}
    /\ stage = "done" => Len(trace) = 3

\* the gate has answered the request itself, with the given status
GateRejected(status) ==
    /\ stage = "done"
    /\ trace \in {<<"protect">>, <<"protect", "authorize">>}
    /\ res.status = status

GateOutcome ==
    IF GateAccepted THEN "accepted"
    ELSE IF GateRejected(401) THEN "401"
    ELSE IF GateRejected(403) THEN "403"
    ELSE "other"

\* the token a header presents: its second word and, when that word is a
\* token, the token
PresentedToken(h) ==
    LET token == ExtractToken(h)
    IN  [text |-> token, value |-> IF HasTok(token) THEN h.tok ELSE NoToken]

\* an answered request is set aside, with everything its answer could have
\* depended on, to be compared with later ones
KeepForComparison ==
    /\ stage = "done"
    /\ req.route \in GatedRoutes
    /\ kept = {}
    /\ kept' = {[token |-> PresentedToken(req.auth), gate |-> req.gate, now |-> now,
                 outcome |-> GateOutcome, auth |-> req.auth, uid |-> req.uid,
                 body |-> req.body, products |-> Cardinality(pre.products)]}
    /\ UNCHANGED <<now, jwtExpiresIn, nodeEnv, procs, storeVars, req, stage, reqUser, res, trace, pre>>

\* authorize(roles) mounted on its own, for any role or array of roles and any
\* req.user
RoleArgs ==
    {OneRole(r) : r \in UserRole}
      \cup {RoleArray(rs) : rs \in SeqsUpTo(UserRole, MaxRoles)}

NewAuthorizeCall ==
    \E roles \in RoleArgs :
      \E user \in {{}} \cup {{Decoded(t)} : t \in issued} :
        /\ stage = "idle"
        /\ req' = [route |-> "mounted", gate |-> roles, auth |-> NoHeader, uid |-> Absent,
                   param |-> Absent, query |-> NoQuery, body |-> NoBody]
        /\ stage' = "authorize"
        /\ reqUser' = user
        /\ res' = NoRes
        /\ trace' = <<>>
        /\ pre' = Stores
        /\ UNCHANGED <<now, jwtExpiresIn, nodeEnv, procs, storeVars, kept>>

\* the handler behind a gate mounted on its own
mounted ==
    /\ stage = "handler" /\ req.route = "mounted"
    /\ Send(Json(200, <<>>), "mounted")
    /\ UNCHANGED <<handlerFrame, storeVars>>

(***************************************************************************)
(* Requests that differ in nothing but the token                           *)
(***************************************************************************)
\* the handlers that take the caller from the user-id header
HeaderIdentityRoutes == (VendorRoutes \ {"getProductById"}) \cup NgoRoutes

IdentityUserIds == {Absent, "U2", "U3", "U9"}

IdentityBodies ==
    DirectBodies
      \cup {[NoFields EXCEPT !.status = "bogus"],
            [content |-> Absent,
             accessRights |-> <<[public |-> TRUE, restrictedTo |-> <<>>]>>]}

IdentityInputs(route) ==
    {in \in AreaInputs(route) :
       /\ in.uid \in IdentityUserIds
       /\ in.param \in {Absent, "P1", "A1"}
       /\ in.body \in IdentityBodies
       /\ in.query \in {NoQuery, [type |-> Absent], [format |-> "json"],
                        [mine |-> TRUE, status |-> Absent]}}

\* the tokens of the role a route is for
TokensFor(route) == {t \in issued : t.role = PrefixRole(route)}

\* what the vendor and NGO handlers read and write, with the id counters
AreaStores ==
    [products |-> products, nextProduct |-> nextProduct,
     analytics |-> analytics, nextAnalytics |-> nextAnalytics]

\* the same at the arrival of the answered request: only a create that
\* succeeded has used an id
AreaStoresBefore ==
    [products |-> pre.products,
     nextProduct |-> IF req.route = "createProduct" /\ res.status = 201
                     THEN nextProduct - 1 ELSE nextProduct,
     analytics |-> pre.analytics,
     nextAnalytics |-> IF req.route = "createAnalytics" /\ res.status = 201
                       THEN nextAnalytics - 1 ELSE nextAnalytics]

\* the request without its Authorization header
RequestProper ==
    [route |-> req.route, uid |-> req.uid, param |-> req.param, query |-> req.query,
     body |-> req.body]

\* once an answer is set aside, the requests that follow go to the same router
NewIdentityRequest ==
    /\ stage = "idle"
    /\ \E route \in HeaderIdentityRoutes :
         \E t \in TokensFor(route) :
           \E in \in IdentityInputs(route) :
             /\ \A k \in kept : PrefixRole(k.request.route) = PrefixRole(route)
             /\ CanArrive(route) /\ RoomFor(route)
             /\ Arrive(route, BearerHeader(t), in)

\* an answered request is set aside with its answer and its effect
KeepAnswer ==
    /\ stage = "done"
    /\ req.route \in HeaderIdentityRoutes
    /\ trace[Len(trace)] = req.route
    /\ req.uid # Absent
    /\ kept = {}
    /\ IF req.route \in VendorRoutes
       THEN analytics = {} /\ nextAnalytics = 0
       ELSE products = {} /\ nextProduct = 0
    /\ kept' = {[request |-> RequestProper, subject |-> req.auth.tok.id,
                 before |-> AreaStoresBefore, res |-> res, after |-> AreaStores]}
    /\ UNCHANGED <<now, jwtExpiresIn, nodeEnv, procs, storeVars, req, stage, reqUser, res, trace, pre>>

(***************************************************************************)
(* Handlers running at once.  Node runs one handler until its next await,  *)
(* so a handler that awaits a query and then a write is two steps, and the *)
(* steps of the requests in flight interleave.  register, updateProfile    *)
(* and updateFarmProfile are the handlers that look up and then write.     *)
(***************************************************************************)
Procs == 1..MaxInFlight

IdleProc ==
    [pc |-> "idle", route |-> "none", caller |-> {}, uid |-> Absent, param |-> Absent,
     body |-> NoBody, found |-> {}, res |-> NoRes]

InFlight(route) == Cardinality({p \in Procs : procs[p].route = route})

RaceRoutes == {"register", "updateProfile", "updateFarmProfile"}

RaceBodies(route) ==
    CASE route = "register" ->
             [name : {"n1"}, email : {"b@x", "A@x"}, password : {"pw1"}, role : {Absent}]
      [] route = "updateProfile" ->
             [name : {Absent}, email : {"b@x", "f@x"}, password : {Absent}]
      [] OTHER -> [name : {Absent, "f1"}, details : {"d1"}]

\* the users protect and the role gate of the route let through with their
\* token at this moment
RaceCallers(route) ==
    IF ~Protected(route) THEN {{}}
    ELSE {{Decoded(t)} : t \in
            {x \in issued :
               /\ ProtectDecision(BearerHeader(x), now) = "next"
               /\ x.role \in {"farmer", "vendor"}
               /\ GateOf(route) # NoGate
                    => AuthorizeDecision(GateOf(route), {Decoded(x)}) = "next"}}

\* a request reaches its handler while others are in flight
raceArrive ==
    \E p \in Procs, route \in RaceRoutes :
      \E c \in RaceCallers(route), b \in RaceBodies(route) :
        /\ procs[p].pc = "idle"
        /\ route = "register"
             => Cardinality(users) + InFlight("register") < Len(UserIdPool)
        /\ route = "updateFarmProfile"
             => Cardinality(farms) + InFlight("updateFarmProfile") < Len(FarmIdPool)
        /\ procs' = [procs EXCEPT ![p] =
                       [IdleProc EXCEPT !.pc = "find", !.route = route, !.caller = c,
                                        !.body = b]]
        /\ UNCHANGED <<now, jwtExpiresIn, nodeEnv, storeVars, req, stage, reqUser, res, trace,
                       pre, kept>>

\* the response is out and the request leaves
raceFinish ==
    \E p \in Procs :
      /\ procs[p].pc = "done"
      /\ procs' = [procs EXCEPT ![p] = IdleProc]
      /\ UNCHANGED <<now, jwtExpiresIn, nodeEnv, storeVars, req, stage, reqUser, res, trace,
                     pre, kept>>

raceFrame == <<now, jwtExpiresIn, nodeEnv, req, stage, reqUser, res, trace, pre, kept>>

Answer(p, r) == [procs EXCEPT ![p].pc = "done", ![p].res = r]

\* register up to the end of await User.findOne({ email })
registerFindOne ==
    \E p \in Procs :
      /\ procs[p].pc = "find" /\ procs[p].route = "register"
      /\ LET found == FindByEmail(procs[p].body.email)
         IN  procs' = IF found # {}
                      THEN Answer(p, Reply(400, "User already exists"))
                      ELSE [procs EXCEPT ![p].pc = "write"]
      /\ UNCHANGED <<raceFrame, storeVars>>

\* register from the hashing to the response: await User.create(...)
registerCreate ==
    \E p \in Procs :
      /\ procs[p].pc = "write" /\ procs[p].route = "register"
      /\ \E salt \in Salts :
           LET body == procs[p].body
               role == IF body.role = Absent THEN "farmer" ELSE body.role
               id   == UserIdPool[Cardinality(users) + 1]
               doc  == [id |-> id, name |-> body.name, email |-> Lowercase(body.email),
                        password |-> BcryptHash(body.password, salt), role |-> role]
               token == generateToken(id, role, now, jwtExpiresIn)
           IN  IF ~ValidUser(doc) \/ EmailTaken(doc)
               THEN /\ procs' = Answer(p, Reply(500, "Server error during registration"))
                    /\ UNCHANGED <<users, issued>>
               ELSE /\ users' = users \cup {doc}
                    /\ issued' = issued \cup {token}
                    /\ procs' = Answer(p, JsonWithToken(201, <<UserView(doc)>>, token))
      /\ UNCHANGED <<raceFrame, nonUserStores>>

\* updateProfile up to the end of await User.findById(req.user.id)
updateProfileFindById ==
    \E p \in Procs :
      /\ procs[p].pc = "find" /\ procs[p].route = "updateProfile"
      /\ LET found == FindUserById((CHOOSE x \in procs[p].caller : TRUE).id)
         IN  procs' = IF found = {}
                      THEN Answer(p, Reply(404, "User not found"))
                      ELSE [procs EXCEPT ![p].pc = "write", ![p].found = found]
      /\ UNCHANGED <<raceFrame, storeVars>>

\* document.save() of a document read earlier: the paths that were modified
\* since the read are set on the stored document of the same _id
SaveModified(stored, read, doc) ==
    [f \in DOMAIN stored |-> IF doc[f] # read[f] THEN doc[f] ELSE stored[f]]

\* updateProfile from the assignments to the response: await user.save()
updateProfileSave ==
    \E p \in Procs :
      /\ procs[p].pc = "write" /\ procs[p].route = "updateProfile"
      /\ LET user == CHOOSE u \in procs[p].found : TRUE
             body == procs[p].body
             doc  == [user EXCEPT !.name = Or(body.name, user.name),
                                  !.email = Lowercase(Or(body.email, user.email))]
             stored == CHOOSE u \in users : u.id = user.id
             saved == SaveModified(stored, user, doc)
             token == generateToken(doc.id, doc.role, now, jwtExpiresIn)
         IN  IF ~ValidUser(doc) \/ EmailTaken(saved)
             THEN /\ procs' = Answer(p, Reply(500, "Server error updating profile"))
                  /\ UNCHANGED <<users, issued>>
             ELSE /\ users' = (users \ {stored}) \cup {saved}
                  /\ issued' = issued \cup {token}
                  /\ procs' = Answer(p, JsonWithToken(200, <<UserView(doc)>>, token))
      /\ UNCHANGED <<raceFrame, nonUserStores>>

\* updateFarmProfile up to the end of await Farm.findOne({ owner: req.user.id })
updateFarmProfileFindOne ==
    \E p \in Procs :
      /\ procs[p].pc = "find" /\ procs[p].route = "updateFarmProfile"
      /\ procs' = [procs EXCEPT
                     ![p].pc = "write",
                     ![p].found = FindFarmByOwner((CHOOSE x \in procs[p].caller : TRUE).id)]
      /\ UNCHANGED <<raceFrame, storeVars>>

\* updateFarmProfile from the branch on the farm found to the response:
\* await farm.save() or await Farm.create(...)
updateFarmProfileWrite ==
    \E p \in Procs :
      /\ procs[p].pc = "write" /\ procs[p].route = "updateFarmProfile"
      /\ LET body == procs[p].body
             owner == (CHOOSE x \in procs[p].caller : TRUE).id
         IN  IF procs[p].found # {}
             THEN LET farm == CHOOSE f \in procs[p].found : TRUE
                      updatedFarm == [farm EXCEPT !.name = Or(body.name, farm.name),
                                                  !.details = Or(body.details, farm.details)]
                      stored == CHOOSE f \in farms : f.id = farm.id
                      saved == SaveModified(stored, farm, updatedFarm)
                  IN  IF ~ValidFarm(updatedFarm)
                      THEN /\ procs' = Answer(p, Reply(500,
                                                  "Server error updating farm profile"))
                           /\ UNCHANGED farms
                      ELSE /\ farms' = (farms \ {stored}) \cup {saved}
                           /\ procs' = Answer(p, Json(200, <<updatedFarm>>))
             ELSE LET farm == [id |-> FarmIdPool[Cardinality(farms) + 1], owner |-> owner,
                               name |-> body.name, details |-> body.details,
                               crops |-> <<>>]
                  IN  IF ~ValidFarm(farm)
                      THEN /\ procs' = Answer(p, Reply(500,
                                                  "Server error updating farm profile"))
                           /\ UNCHANGED farms
                      ELSE /\ farms' = farms \cup {farm}
                           /\ procs' = Answer(p, Json(201, <<farm>>))
      /\ UNCHANGED <<raceFrame, farmerFrame, nextCrop, predictions>>

\* createProduct, updateProduct and deleteProduct requests of callers the
\* vendor gate has let through
ProductRaceRoutes == {"createProduct", "updateProduct", "deleteProduct"}

ProductRaceBodies(route) ==
    CASE route = "createProduct" -> {GoodProduct("rice", 10 * SecondsPerDay)}
      [] route = "updateProduct" ->
             {[NoFields EXCEPT !.status = "sold"], [NoFields EXCEPT !.quantity = <<7>>]}
      [] OTHER -> {NoBody}

raceArriveProduct ==
    \E p \in Procs, route \in ProductRaceRoutes :
      \E u \in {"U2", "U9"}, id \in {"P1", "P2"}, b \in ProductRaceBodies(route) :
        /\ procs[p].pc = "idle"
        /\ route = "createProduct"
             => nextProduct + InFlight("createProduct") < MaxProducts /\ id = "P1"
        /\ procs' = [procs EXCEPT ![p] =
                       [IdleProc EXCEPT
                          !.pc = IF route = "createProduct" THEN "write" ELSE "find",
                          !.route = route, !.uid = u, !.body = b,
                          !.param = IF route = "createProduct" THEN Absent ELSE id]]
        /\ UNCHANGED <<raceFrame, storeVars>>

\* createProduct: await Product.create(...) and the response
createProductCreate ==
    \E p \in Procs :
      /\ procs[p].pc = "write" /\ procs[p].route = "createProduct"
      /\ LET doc == NewProduct(ProductIdPool[nextProduct + 1], nextProduct + 1,
                               procs[p].uid, procs[p].body)
         IN  IF ~ValidProduct(doc)
             THEN /\ procs' = Answer(p, Reply(500, "Server error"))
                  /\ UNCHANGED <<products, nextProduct>>
             ELSE /\ products' = products \cup {doc}
                  /\ nextProduct' = nextProduct + 1
                  /\ procs' = Answer(p, Json(201, <<ProductJson(doc, Ref(doc.seller))>>))
      /\ UNCHANGED <<raceFrame, vendorFrame, created>>

\* updateProduct up to the end of await Product.findById(productId).lean(),
\* with the checks on what was found
updateProductFindById ==
    \E p \in Procs :
      /\ procs[p].pc = "find" /\ procs[p].route = "updateProduct"
      /\ LET found == FindProductById(procs[p].param)
         IN  procs' =
               IF found = {} THEN Answer(p, Reply(404, "Product not found"))
               ELSE IF ~IsSeller(CHOOSE x \in found : TRUE, procs[p].uid)
               THEN Answer(p, Reply(403, "Not authorized to update this product"))
               ELSE [procs EXCEPT ![p].pc = "write", ![p].found = found]
      /\ UNCHANGED <<raceFrame, storeVars>>

\* deleteProduct up to the end of await Product.findById(productId).lean(),
\* with the checks on what was found
deleteProductFindById ==
    \E p \in Procs :
      /\ procs[p].pc = "find" /\ procs[p].route = "deleteProduct"
      /\ LET found == FindProductById(procs[p].param)
         IN  procs' =
               IF found = {} THEN Answer(p, Reply(404, "Product not found"))
               ELSE IF ~IsSeller(CHOOSE x \in found : TRUE, procs[p].uid)
               THEN Answer(p, Reply(403, "Not authorized to delete this product"))
               ELSE [procs EXCEPT ![p].pc = "write", ![p].found = found]
      /\ UNCHANGED <<raceFrame, storeVars>>

FindByIdAndUpdateUpsert(id, body) ==
    IF \E q \in products : q.id = id
    THEN {IF q.id = id THEN SetFields(q, body) ELSE q : q \in products}
    ELSE products \cup
           {SetFields([id |-> id, n |-> 1, seller |-> "U2", name |-> "rice",
                       details |-> "d", category |-> "fruits", quantity |-> 5,
                       expiryEstimate |-> 10 * SecondsPerDay, status |-> "available"],
                      body)}

\* Product.findByIdAndUpdate(productId, { $set: ... }, { new: true }): the
\* stored product of that id, if there is one, gets the fields; nothing is
\* inserted (no upsert)
FindByIdAndUpdate(id, body) ==
    {IF q.id = id THEN SetFields(q, body) ELSE q : q \in products}

\* updateProduct from await Product.findByIdAndUpdate(...) to the response
updateProductWrite ==
    \E p \in Procs :
      /\ procs[p].pc = "write" /\ procs[p].route = "updateProduct"
      /\ products' = FindByIdAndUpdate(procs[p].param, procs[p].body)
      /\ LET updated == {q \in products' : q.id = procs[p].param}
         IN  procs' =
               IF updated = {} THEN Answer(p, Reply(404, "Product not found after update"))
               ELSE LET q == CHOOSE x \in updated : TRUE
                    IN  Answer(p, Json(200, <<ProductJson(q, Ref(q.seller))>>))
      /\ UNCHANGED <<raceFrame, vendorFrame, nextProduct, created>>

\* deleteProduct from await Product.findByIdAndDelete(productId) to the response
deleteProductDelete ==
    \E p \in Procs :
      /\ procs[p].pc = "write" /\ procs[p].route = "deleteProduct"
      /\ products' = {q \in products : q.id # procs[p].param}
      /\ procs' = Answer(p, Reply(200, "Product removed"))
      /\ UNCHANGED <<raceFrame, vendorFrame, nextProduct, created>>

(***************************************************************************)
(* app.ts: the application's stack.  Express tries the layers in the order *)
(* app.ts registered them; a layer answers, passes the request on, or      *)
(* raises an error, after which only the error handler is tried.  A path   *)
(* is its sequence of segments: <<>> is '/'.                               *)
(***************************************************************************)
NodeEnvValues == {"development", "production"}

\* the layers in the order of registration
AppStack(env) ==
    <<"cors", "json", "urlencoded", "cookieParser",
      "userRoutes", "farmerRoutes", "vendorRoutes", "ngoRoutes",
      "healthCheck", "notFound", "errorHandler">>
      \o (IF env = "production" THEN <<"static", "catchAll">> ELSE <<>>)

Routers == {"userRoutes", "farmerRoutes", "vendorRoutes", "ngoRoutes"}

\* app.use('/api/<name>', router)
MountPath(router) ==
    CASE router = "userRoutes" -> <<"api", "users">>
      [] router = "farmerRoutes" -> <<"api", "farmers">>
      [] router = "vendorRoutes" -> <<"api", "vendors">>
      [] router = "ngoRoutes" -> <<"api", "ngos">>

\* the routes of a router: method and path below the mount path, ":" a
\* parameter
RouterTable(router) ==
    CASE router = "userRoutes" ->
           {<<"POST", <<"register">>>>, <<"POST", <<"login">>>>,
            <<"GET", <<"profile">>>>, <<"PUT", <<"profile">>>>}
      [] router = "farmerRoutes" ->
           {<<"GET", <<"farm">>>>, <<"PUT", <<"farm">>>>, <<"POST", <<"crops">>>>,
            <<"PUT", <<"crops", ":">>>>, <<"DELETE", <<"crops", ":">>>>,
            <<"GET", <<"predictions">>>>, <<"POST", <<"predictions">>>>}
      [] router = "vendorRoutes" ->
           {<<"GET", <<"products">>>>, <<"GET", <<"products", ":">>>>,
            <<"POST", <<"products">>>>, <<"PUT", <<"products", ":">>>>,
            <<"DELETE", <<"products", ":">>>>, <<"GET", <<"spoilage-risks">>>>,
            <<"GET", <<"demand-forecasts">>>>}
      [] router = "ngoRoutes" ->
           {<<"GET", <<"analytics">>>>, <<"GET", <<"analytics", ":">>>>,
            <<"POST", <<"analytics">>>>, <<"PUT", <<"analytics", ":">>>>,
            <<"DELETE", <<"analytics", ":">>>>, <<"GET", <<"export", ":">>>>}

\* router.use(protect, <role>Only) in front of the routes of a router
RouterGate(router) ==
    CASE router = "farmerRoutes" -> farmerOnly
      [] router = "vendorRoutes" -> vendorOnly
      [] router = "ngoRoutes" -> ngoOnly
      [] OTHER -> NoGate

HasPrefix(path, prefix) ==
    Len(path) >= Len(prefix) /\ SubSeq(path, 1, Len(prefix)) = prefix

BelowMount(path, router) ==
    SubSeq(path, Len(MountPath(router)) + 1, Len(path))

\* a route of the table is for the method and the path
RouteMatches(method, rest, table) ==
    \E r \in table :
        /\ r[1] = method
        /\ Len(r[2]) = Len(rest)
        /\ \A i \in 1..Len(rest) : r[2][i] = ":" \/ r[2][i] = rest[i]

\* what the frontend build holds
StaticFiles == {<<"index.html">>}

NotFound == Reply(404, "API endpoint not found")

IndexHtml == Reply(200, "index.html")

PassOn == [kind |-> "next", res |-> NoRes]

Raise == [kind |-> "error", res |-> NoRes]

Sends(r) == [kind |-> "send", res |-> r]

\* what a router mounted on the application does with a request at time t
RouterOutcome(router, r, t) ==
    IF ~HasPrefix(r.path, MountPath(router)) THEN PassOn
    ELSE LET p == IF RouterGate(router) = NoGate THEN "next"
                  ELSE ProtectDecision(r.auth, t)
             a == IF RouterGate(router) = NoGate \/ p # "next" THEN "next"
                  ELSE AuthorizeDecision(RouterGate(router), {Decoded(r.auth.tok)})
         IN  IF p = "none" THEN Sends(Reply(401, "Not authorized, no token provided"))
             ELSE IF p = "invalid"
             THEN Sends(Reply(401, "Not authorized, invalid token"))
             ELSE IF a = "403" THEN Sends(Reply(403, "Access denied"))
             ELSE IF RouteMatches(r.method, BelowMount(r.path, router),
                                  RouterTable(router))
             THEN Sends(Reply(200, router))
             ELSE PassOn

\* what a layer does with a request at time t; a layer of three arguments is
\* skipped while an error is pending, the error handler while none is
LayerOutcome(layer, r, t, env) ==
    IF r.err # (layer = "errorHandler") THEN PassOn
    ELSE CASE layer = "cors" ->
                IF r.method = "OPTIONS" THEN Sends(Reply(204, "")) ELSE PassOn
           [] layer = "json" -> IF r.malformed THEN Raise ELSE PassOn
           [] layer \in {"urlencoded", "cookieParser"} -> PassOn
           [] layer \in Routers -> RouterOutcome(layer, r, t)
           [] layer = "healthCheck" ->
                IF r.method = "GET" /\ r.path = <<>>
                THEN Sends(Reply(200, "AgriSense API is running"))
                ELSE PassOn
           [] layer = "notFound" -> Sends(NotFound)
           [] layer = "errorHandler" -> Sends(Reply(400, "err.message"))
           [] layer = "static" ->
                IF r.method = "GET" /\ r.path \in StaticFiles
                THEN Sends(IndexHtml) ELSE PassOn
           [] layer = "catchAll" ->
                IF r.method = "GET" THEN Sends(IndexHtml) ELSE PassOn

\* a request for the application
AppRequest(method, path, h, malformed) ==
    [route |-> "app", method |-> method, path |-> path, auth |-> h,
     malformed |-> malformed, err |-> FALSE]

appArrive(method, path, h, malformed) ==
    /\ stage = "idle"
    /\ req' = AppRequest(method, path, h, malformed)
    /\ stage' = "app"
    /\ reqUser' = {}
    /\ res' = NoRes
    /\ trace' = <<>>
    /\ pre' = Stores
    /\ UNCHANGED <<now, jwtExpiresIn, nodeEnv, procs, storeVars, kept>>

\* the next layer of the stack takes the request; past the last layer Express
\* answers by itself
appLayer ==
    /\ stage = "app"
    /\ LET stack == AppStack(nodeEnv)
           i == Len(trace) + 1
       IN  IF i > Len(stack)
           THEN /\ Send(Reply(IF req.err THEN 500 ELSE 404, "finalhandler"),
                        "finalhandler")
                /\ UNCHANGED req
           ELSE LET o == LayerOutcome(stack[i], req, now, nodeEnv)
                IN  CASE o.kind = "send" -> Send(o.res, stack[i]) /\ UNCHANGED req
                      [] o.kind = "next" ->
                           /\ trace' = Append(trace, stack[i])
                           /\ UNCHANGED <<req, stage, res>>
                      [] o.kind = "error" ->
                           /\ req' = [req EXCEPT !.err = TRUE]
                           /\ trace' = Append(trace, stack[i])
                           /\ UNCHANGED <<stage, res>>
    /\ UNCHANGED <<now, jwtExpiresIn, nodeEnv, procs, storeVars, reqUser, pre, kept>>

(***************************************************************************)
(* Specifications                                                          *)
(***************************************************************************)
JwtExpiresInValues == {<<>>, <<"7", "d">>}

InitRest ==
    /\ products = {} /\ nextProduct = 0 /\ created = {}
    /\ analytics = {} /\ nextAnalytics = 0
    /\ farms = {} /\ nextCrop = 0
    /\ predictions = {}
    /\ req = NoReq /\ stage = "idle" /\ reqUser = {} /\ res = NoRes /\ trace = <<>>
    /\ kept = {}
    /\ procs = [p \in Procs |-> IdleProc]

\* the server has just started on an empty database
Init ==
    /\ now = 0
    /\ jwtExpiresIn \in JwtExpiresInValues
    /\ nodeEnv = "development"
    /\ users = {} /\ issued = {}
    /\ InitRest
    /\ pre = Stores

\* four registered users, one of each role, each holding the token it was given
SeedUser(i, role) ==
    [id |-> UserIdPool[i], name |-> "n1", email |-> "seed@x",
     password |-> BcryptHash("pw1", "s1"), role |-> role]

SeedUsers ==
    {[SeedUser(1, "farmer") EXCEPT !.email = "f@x"],
     [SeedUser(2, "vendor") EXCEPT !.email = "v@x"],
     [SeedUser(3, "ngo") EXCEPT !.email = "n@x"],
     [SeedUser(4, "admin") EXCEPT !.email = "a@x"]}

\* the seeded users and a second vendor, NGO and farmer
SeedPairs ==
    SeedUsers \cup {[SeedUser(5, "vendor") EXCEPT !.email = "v2@x"],
                    [SeedUser(6, "ngo") EXCEPT !.email = "n2@x"],
                    [SeedUser(7, "farmer") EXCEPT !.email = "f2@x"]}

InitPairs ==
    /\ now = 0
    /\ jwtExpiresIn = <<>>
    /\ nodeEnv = "development"
    /\ users = SeedPairs
    /\ issued = {generateToken(u.id, u.role, 0, <<>>) : u \in SeedPairs}
    /\ InitRest
    /\ pre = Stores

InitSeeded ==
    /\ now = 0
    /\ jwtExpiresIn = <<>>
    /\ nodeEnv = "development"
    /\ users = SeedUsers
    /\ issued = {generateToken(u.id, u.role, 0, <<>>) : u \in SeedUsers}
    /\ InitRest
    /\ pre = Stores

\* the seeded farmer has a farm with two crops, the second farmer a farm with
\* one
SeedFarms ==
    {[id |-> FarmIdPool[1], owner |-> UserIdPool[1], name |-> "f1", details |-> "d1",
      crops |-> <<[id |-> CropIdPool[1], name |-> "maize", rest |-> "r1"],
                  [id |-> CropIdPool[2], name |-> "rice", rest |-> "r1"]>>],
     [id |-> FarmIdPool[2], owner |-> UserIdPool[7], name |-> "f2", details |-> "d1",
      crops |-> <<[id |-> CropIdPool[3], name |-> "maize", rest |-> "r1"]>>]}

InitCrops ==
    /\ now = 0
    /\ jwtExpiresIn = <<>>
    /\ nodeEnv = "development"
    /\ users = SeedPairs
    /\ issued = {generateToken(u.id, u.role, 0, <<>>) : u \in SeedPairs}
    /\ products = {} /\ nextProduct = 0 /\ created = {}
    /\ analytics = {} /\ nextAnalytics = 0
    /\ farms = SeedFarms /\ nextCrop = 3
    /\ predictions = {}
    /\ req = NoReq /\ stage = "idle" /\ reqUser = {} /\ res = NoRes /\ trace = <<>>
    /\ kept = {}
    /\ procs = [p \in Procs |-> IdleProc]
    /\ pre = Stores

\* requests that read, change and remove the crops of a farm
NewCropRequest ==
    /\ stage = "idle"
    /\ \E route \in {"getFarmProfile", "updateCrop", "deleteCrop"} :
         \E h \in RoleHeaders("farmer") :
           \E in \in FarmerInputs(route) :
             Arrive(route, h, [in EXCEPT !.param = IF @ = "zz" THEN "K3" ELSE @])

NextCrops ==
    \/ NewCropRequest
    \/ Finish
    \/ protect
    \/ authorize
    \/ getFarmProfile
    \/ updateCrop
    \/ deleteCrop

SpecCrops == InitCrops /\ [][NextCrops]_vars

\* products of two sellers: one of another seller, one sold, one on sale
SeedProducts ==
    {[id |-> ProductIdPool[1], n |-> 1, seller |-> "U9", name |-> "rice", details |-> "d",
      category |-> "grains", quantity |-> 5, expiryEstimate |-> 10 * SecondsPerDay,
      status |-> "available"],
     [id |-> ProductIdPool[2], n |-> 2, seller |-> "U2", name |-> "milk", details |-> "d",
      category |-> "dairy", quantity |-> 5, expiryEstimate |-> 2 * SecondsPerDay,
      status |-> "sold"],
     [id |-> ProductIdPool[3], n |-> 3, seller |-> "U2", name |-> "kale", details |-> "d",
      category |-> "vegetables", quantity |-> 5, expiryEstimate |-> 5 * SecondsPerDay,
      status |-> "reserved"]}

InitProducts ==
    /\ now = 0
    /\ jwtExpiresIn = <<>>
    /\ nodeEnv = "development"
    /\ users = SeedUsers
    /\ issued = {generateToken(u.id, u.role, 0, <<>>) : u \in SeedUsers}
    /\ products = SeedProducts /\ nextProduct = 3 /\ created = {}
    /\ analytics = {} /\ nextAnalytics = 0
    /\ farms = {} /\ nextCrop = 0
    /\ predictions = {}
    /\ req = NoReq /\ stage = "idle" /\ reqUser = {} /\ res = NoRes /\ trace = <<>>
    /\ kept = {}
    /\ procs = [p \in Procs |-> IdleProc]
    /\ pre = Stores

\* expiry estimates on both sides of the three thresholds, and one in the past
SpoilageExpiries ==
    {0 - 1, 3 * SecondsPerDay - 1, 3 * SecondsPerDay, 7 * SecondsPerDay - 1,
     7 * SecondsPerDay, 14 * SecondsPerDay - 1, 14 * SecondsPerDay, 14 * SecondsPerDay + 7,
     40 * SecondsPerDay}

SpoilageInputs(route) ==
    CASE route = "createProduct" ->
             {Input(u, Absent, NoQuery, GoodProduct("rice", e)) :
                u \in {"U2", "U9"}, e \in SpoilageExpiries}
      [] route = "updateProduct" ->
             {Input("U2", id, NoQuery, [NoFields EXCEPT !.status = "sold"]) :
                id \in {ProductIdPool[3], ProductIdPool[4]}}
      [] OTHER -> {Input(u, Absent, NoQuery, NoBody) : u \in VendorUserIds}

\* the vendor creates products, marks them sold and asks for the spoilage
\* risks, while time passes
NewSpoilageRequest ==
    /\ stage = "idle"
    /\ \E route \in {"createProduct", "updateProduct", "getSpoilageRisks"} :
         \E h \in {BearerHeader(t) : t \in TokensFor(route)} :
           \E in \in SpoilageInputs(route) :
             /\ route = "createProduct"
                  => nextProduct < Cardinality(SeedProducts) + MaxProducts
             /\ Arrive(route, h, in)

NextSpoilage ==
    \/ NewSpoilageRequest
    \/ Finish
    \/ Tick
    \/ protect
    \/ authorize
    \/ createProduct
    \/ updateProduct
    \/ getSpoilageRisks

SpecSpoilage == InitProducts /\ [][NextSpoilage]_vars

NextVendor ==
    \/ NewVendorRequest
    \/ Finish
    \/ protect
    \/ authorize
    \/ listProducts
    \/ getProductById
    \/ createProduct
    \/ updateProduct
    \/ deleteProduct
    \/ getSpoilageRisks
    \/ getDemandForecasts

SpecVendor == InitSeeded /\ [][NextVendor]_vars

NextNgo ==
    \/ NewNgoRequest
    \/ Finish
    \/ protect
    \/ authorize
    \/ getAnalytics
    \/ getAnalyticsById
    \/ createAnalytics
    \/ updateAnalytics
    \/ deleteAnalytics
    \/ exportAnalyticsData

SpecNgo == InitSeeded /\ [][NextNgo]_vars

NextFarmer ==
    \/ NewFarmerRequest
    \/ Finish
    \/ protect
    \/ authorize
    \/ getFarmProfile
    \/ updateFarmProfile
    \/ addCrop
    \/ updateCrop
    \/ deleteCrop
    \/ getYieldPredictions
    \/ requestNewPrediction

SpecFarmer == InitSeeded /\ [][NextFarmer]_vars

\* every route of the three gated routers
NextRoutes ==
    \/ NewGatedRequest
    \/ Finish
    \/ protect
    \/ authorize
    \/ listProducts
    \/ getProductById
    \/ createProduct
    \/ updateProduct
    \/ deleteProduct
    \/ getSpoilageRisks
    \/ getDemandForecasts
    \/ getAnalytics
    \/ getAnalyticsById
    \/ createAnalytics
    \/ updateAnalytics
    \/ deleteAnalytics
    \/ exportAnalyticsData
    \/ getFarmProfile
    \/ updateFarmProfile
    \/ addCrop
    \/ updateCrop
    \/ deleteCrop
    \/ getYieldPredictions
    \/ requestNewPrediction

SpecRoutes == InitSeeded /\ [][NextRoutes]_vars

\* the middleware under every Authorization header, as time passes
NextAuth ==
    \/ NewAuthRequest
    \/ Finish
    \/ Tick
    \/ protect
    \/ authorize
    \/ getProfile
    \/ getFarmProfile
    \/ createProduct
    \/ deleteProduct
    \/ getAnalytics

SpecAuth == InitSeeded /\ [][NextAuth]_vars

\* gate decisions compared across requests
NextGate ==
    \/ NewGateRequest
    \/ Finish
    \/ KeepForComparison
    \/ Tick
    \/ protect
    \/ authorize
    \/ getFarmProfile
    \/ createProduct
    \/ deleteProduct
    \/ getAnalytics

SpecGate == InitSeeded /\ [][NextGate]_vars

NextAuthorize ==
    \/ NewAuthorizeCall
    \/ Finish
    \/ authorize
    \/ mounted

SpecAuthorize == InitSeeded /\ [][NextAuthorize]_vars

\* the vendor and NGO handlers under the tokens of two users of each role
NextIdentity ==
    \/ NewIdentityRequest
    \/ Finish
    \/ KeepAnswer
    \/ protect
    \/ authorize
    \/ listProducts
    \/ createProduct
    \/ updateProduct
    \/ deleteProduct
    \/ getSpoilageRisks
    \/ getDemandForecasts
    \/ getAnalytics
    \/ getAnalyticsById
    \/ createAnalytics
    \/ updateAnalytics
    \/ deleteAnalytics
    \/ exportAnalyticsData

SpecIdentity == InitPairs /\ [][NextIdentity]_vars

(***************************************************************************)
(* Requests to every handler, one router at a time                         *)
(***************************************************************************)
AllRoutes == UserRoutes \cup GatedRoutes

\* the router a route belongs to
RouterOf(route) ==
    CASE route \in UserRoutes -> "users"
      [] route \in VendorRoutes -> "vendors"
      [] route \in NgoRoutes -> "ngos"
      [] OTHER -> "farmers"

\* the collections of a router are as the seeded server started with them
Untouched(router) ==
    CASE router = "users" ->
             users = SeedUsers /\ Cardinality(issued) = Cardinality(SeedUsers)
      [] router = "vendors" -> products = {} /\ nextProduct = 0
      [] router = "ngos" -> analytics = {} /\ nextAnalytics = 0
      [] OTHER -> farms = {} /\ nextCrop = 0 /\ predictions = {}

\* a valid token for the route: of the router's role, or any for the profile
HeadersFor(route) ==
    IF route \in GatedRoutes THEN {BearerHeader(t) : t \in TokensFor(route)}
    ELSE IF Protected(route) THEN {BearerHeader(t) : t \in issued}
    ELSE {NoHeader}

\* the routers a request to the route finds as the server started with them:
\* the session stays with the router whose collections it has changed, and
\* the user routes are taken against the seeded users
UntouchedFor(route) ==
    IF route \in UserRoutes THEN {"users", "vendors", "ngos", "farmers"}
    ELSE {"users", "vendors", "ngos", "farmers"} \ {RouterOf(route)}

\* any request with a valid token to any handler
NewAnyRequest ==
    /\ stage = "idle"
    /\ \E route \in AllRoutes :
         \E h \in HeadersFor(route) :
           \E in \in AreaInputs(route) :
             /\ \A r \in UntouchedFor(route) : Untouched(r)
             /\ RoomFor(route)
             /\ Arrive(route, h, in)

\* every handler, with well-formed and ill-formed input
NextAll ==
    \/ NewAnyRequest
    \/ Finish
    \/ protect
    \/ authorize
    \/ register
    \/ login
    \/ getProfile
    \/ updateProfile
    \/ listProducts
    \/ getProductById
    \/ createProduct
    \/ updateProduct
    \/ deleteProduct
    \/ getSpoilageRisks
    \/ getDemandForecasts
    \/ getAnalytics
    \/ getAnalyticsById
    \/ createAnalytics
    \/ updateAnalytics
    \/ deleteAnalytics
    \/ exportAnalyticsData
    \/ getFarmProfile
    \/ updateFarmProfile
    \/ addCrop
    \/ updateCrop
    \/ deleteCrop
    \/ getYieldPredictions
    \/ requestNewPrediction

SpecAll == InitSeeded /\ [][NextAll]_vars

\* any request to any handler, whatever its token: none, one of any role, or
\* a forged one
PipelineHeaders(route) == IF Protected(route) THEN PlainHeaders ELSE {NoHeader}

NewPipelineRequest ==
    /\ stage = "idle"
    /\ \E route \in AllRoutes :
         \E h \in PipelineHeaders(route) :
           \E in \in AreaInputs(route) :
             /\ \A r \in UntouchedFor(route) : Untouched(r)
             /\ RoomFor(route)
             /\ Arrive(route, h, in)

NextPipeline ==
    \/ NewPipelineRequest
    \/ Finish
    \/ protect
    \/ authorize
    \/ register
    \/ login
    \/ getProfile
    \/ updateProfile
    \/ listProducts
    \/ getProductById
    \/ createProduct
    \/ updateProduct
    \/ deleteProduct
    \/ getSpoilageRisks
    \/ getDemandForecasts
    \/ getAnalytics
    \/ getAnalyticsById
    \/ createAnalytics
    \/ updateAnalytics
    \/ deleteAnalytics
    \/ exportAnalyticsData
    \/ getFarmProfile
    \/ updateFarmProfile
    \/ addCrop
    \/ updateCrop
    \/ deleteCrop
    \/ getYieldPredictions
    \/ requestNewPrediction

\* a middleware or a controller takes the request that is in the pipeline
PipelineStep ==
    \/ protect
    \/ authorize
    \/ register
    \/ login
    \/ getProfile
    \/ updateProfile
    \/ listProducts
    \/ getProductById
    \/ createProduct
    \/ updateProduct
    \/ deleteProduct
    \/ getSpoilageRisks
    \/ getDemandForecasts
    \/ getAnalytics
    \/ getAnalyticsById
    \/ createAnalytics
    \/ updateAnalytics
    \/ deleteAnalytics
    \/ exportAnalyticsData
    \/ getFarmProfile
    \/ updateFarmProfile
    \/ addCrop
    \/ updateCrop
    \/ deleteCrop
    \/ getYieldPredictions
    \/ requestNewPrediction

\* Express calls the next function of the chain as soon as the one before
\* calls next(), and every awaited query resolves or rejects, so a request
\* in the pipeline is always taken by the function it waits for
SpecPipeline == InitSeeded /\ [][NextPipeline]_vars /\ WF_vars(PipelineStep)

NextUsers ==
    \/ NewUserRequest
    \/ Finish
    \/ protect
    \/ register
    \/ login
    \/ getProfile
    \/ updateProfile

SpecUsers == Init /\ [][NextUsers]_vars

\* the user routes while the clock advances past the token lifetimes
NextTokens ==
    \/ NewUserRequest
    \/ Finish
    \/ Tick
    \/ protect
    \/ register
    \/ login
    \/ getProfile
    \/ updateProfile

SpecTokens == Init /\ [][NextTokens]_vars

\* the farmer routes under the tokens of two farmers
SpecFarmers == InitPairs /\ [][NextFarmer]_vars

\* register, updateProfile and updateFarmProfile requests in flight together
NextRaces ==
    \/ raceArrive
    \/ raceFinish
    \/ registerFindOne
    \/ registerCreate
    \/ updateProfileFindById
    \/ updateProfileSave
    \/ updateFarmProfileFindOne
    \/ updateFarmProfileWrite

SpecRaces == InitSeeded /\ [][NextRaces]_vars

\* createProduct, updateProduct and deleteProduct requests in flight together
NextProductRaces ==
    \/ raceArriveProduct
    \/ raceFinish
    \/ createProductCreate
    \/ updateProductFindById
    \/ deleteProductFindById
    \/ updateProductWrite
    \/ deleteProductDelete

SpecProductRaces == InitSeeded /\ [][NextProductRaces]_vars

\* requests for the application: a method, a path, a header and a body that
\* parses or does not
AppMethods == {"GET", "POST", "OPTIONS"}

AppPaths ==
    {<<>>, <<"dashboard">>, <<"index.html">>, <<"api">>,
     <<"api", "users", "login">>, <<"api", "users", "nope">>,
     <<"api", "vendors", "products">>, <<"api", "vendors", "products", "P1">>,
     <<"api", "vendors", "nope">>, <<"api", "farmers", "farm">>,
     <<"api", "ngos", "analytics">>}

AppHeaders == {NoHeader} \cup {BearerHeader(t) : t \in {x \in issued : x.role # "admin"}}

InitApp ==
    /\ now = 0
    /\ jwtExpiresIn = <<>>
    /\ nodeEnv \in NodeEnvValues
    /\ users = SeedUsers
    /\ issued = {generateToken(u.id, u.role, 0, <<>>) : u \in SeedUsers}
    /\ InitRest
    /\ pre = Stores

NewAppRequest ==
    \E method \in AppMethods, path \in AppPaths, h \in AppHeaders, malformed \in BOOLEAN :
        appArrive(method, path, h, malformed)

NextApp == NewAppRequest \/ appLayer \/ Finish

SpecApp == InitApp /\ [][NextApp]_vars

(***************************************************************************)
(* Properties                                                              *)
(***************************************************************************)
\* the four failures of protect: no header, a header that does not start with
\* Bearer, no token after it, a token that does not verify
ProtectFails(h, t) ==
    \/ h.text = <<>>
    \/ ~StartsWithBearer(h.text)
    \/ SplitSecond(h.text) = <<>>
    \/ ~(SplitSecond(h.text) = <<"tok">> /\ h.tok.sig = "secret" /\ t < h.tok.exp)

\* C1: on a protected route, when the Authorization header is absent, does not
\* start with Bearer, carries no token, or carries one that fails verification,
\* protect answers 401, nothing after protect runs and no identity is attached;
\* an identity is attached only after a verification that succeeded, and it is
\* the token's payload.
C1_ProtectRejects ==
    (stage # "idle" /\ Protected(req.route)) =>
      /\ stage = "protect" => reqUser = {}
      /\ (stage # "protect" /\ ProtectFails(req.auth, now)) =>
           /\ stage = "done"
           /\ res.status = 401
           /\ trace = <<"protect">>
           /\ reqUser = {}
      /\ reqUser # {} =>
           /\ ~ProtectFails(req.auth, now)
           /\ trace[1] = "protect"
           /\ reqUser = {[id |-> req.auth.tok.id, role |-> req.auth.tok.role]}

\* a token the server signed, presented well-formed after it expired
C1_Witness ==
    /\ stage = "done"
    /\ Protected(req.route)
    /\ req.auth.text = <<"Bearer", "sp", "tok">>
    /\ req.auth.tok \in issued
    /\ now >= req.auth.tok.exp
    /\ res.status = 401
    /\ trace = <<"protect">>

\* the set of roles authorize was given
RolesIn(roles) ==
    IF "array" \in DOMAIN roles
    THEN {roles.array[i] : i \in 1..Len(roles.array)}
    ELSE {roles.single}

\* C2: authorize(R), for one role or an array of roles R, invokes next exactly
\* when the attached identity's role is in R; an identity whose role is not in
\* R is answered 403, and a request with no identity 401.
C2_AuthorizeByRole ==
    (req.route = "mounted" /\ stage \in {"handler", "done"}) =>
      LET nextInvoked == trace # <<>> /\ trace[1] = "authorize"
                           /\ (stage = "handler" \/ Len(trace) = 2)
          inR == \E u \in reqUser : u.role \in RolesIn(req.gate)
      IN  /\ nextInvoked <=> inR
          /\ (reqUser # {} /\ ~inR) =>
               (stage = "done" /\ res.status = 403 /\ trace = <<"authorize">>)
          /\ reqUser = {} =>
               (stage = "done" /\ res.status = 401 /\ trace = <<"authorize">>)

\* an array of two roles lets the second one through
C2_Witness ==
    /\ req.route = "mounted"
    /\ stage = "handler"
    /\ trace = <<"authorize">>
    /\ "array" \in DOMAIN req.gate
    /\ Len(req.gate.array) = 2
    /\ req.gate.array[1] # req.gate.array[2]
    /\ \E u \in reqUser : u.role = req.gate.array[2]

\* the request carries a well-formed header with a token that verifies now
ValidTokenPresented ==
    /\ stage # "idle"
    /\ req.auth.text = <<"Bearer", "sp", "tok">>
    /\ req.auth.tok.sig = "secret"
    /\ now < req.auth.tok.exp

\* C3: a request to any route of the farmer, vendor or NGO router with a valid
\* token whose role is not the router's role (admin included) is answered 403,
\* no controller runs, and farms, products, predictions and analytics stay as
\* they were when it arrived.
C3_WrongRoleRejected ==
    (ValidTokenPresented /\ req.route \in GatedRoutes
       /\ req.auth.tok.role # PrefixRole(req.route)) =>
      /\ \A i \in 1..Len(trace) : trace[i] \in {"protect", "authorize"}
      /\ stage # "handler"
      /\ stage = "done" => res.status = 403
      /\ farms = pre.farms
      /\ products = pre.products
      /\ predictions = pre.predictions
      /\ analytics = pre.analytics

\* the admin asks to delete a product in its seller's name
C3_Witness ==
    /\ ValidTokenPresented
    /\ stage = "done"
    /\ req.route = "deleteProduct"
    /\ req.auth.tok.role = "admin"
    /\ res.status = 403
    /\ \E p \in products : p.id = req.param /\ p.seller = req.uid

\* C4: the gate's decision on a request to a gated route is exactly one of
\* accepted, 401 and 403, and two requests with the same token and the same
\* allowed roles at the same time get the same decision, whatever their other
\* headers, their bodies and the stored data.
C4_GateIsFunctionOfToken ==
    (stage = "done" /\ req.route \in GatedRoutes) =>
      /\ (IF GateAccepted THEN 1 ELSE 0) + (IF GateRejected(401) THEN 1 ELSE 0)
           + (IF GateRejected(403) THEN 1 ELSE 0) = 1
      /\ \A k \in kept :
           (k.token = PresentedToken(req.auth) /\ k.gate = req.gate /\ k.now = now)
             => k.outcome = GateOutcome

\* the same token at the same gate and time, with another user-id header,
\* another body and other stored products
C4_Witness ==
    /\ stage = "done"
    /\ req.route \in GatedRoutes
    /\ GateAccepted
    /\ \E k \in kept :
         /\ k.token = PresentedToken(req.auth) /\ k.gate = req.gate /\ k.now = now
         /\ k.uid # req.uid
         /\ k.body # req.body
         /\ k.products # Cardinality(pre.products)

\* the controller of the route has run for req and answered it
Answered(route) ==
    /\ stage = "done"
    /\ req.route = route
    /\ trace # <<>> /\ trace[Len(trace)] = route

\* C5: a register request whose email is the email of a stored user is answered
\* 400, gets no token, and leaves the stored users (and the tokens signed) as
\* they were.
C5_DuplicateEmailRejected ==
    (Answered("register") /\ \E u \in pre.users : u.email = req.body.email)
      => /\ res.status = 400
         /\ res.token = NoToken
         /\ users = pre.users
         /\ issued = pre.issued

C5_Witness ==
    /\ Answered("register")
    /\ \E u \in pre.users : u.email = req.body.email
    /\ res.status = 400

\* the stored user a login email belongs to (emails are stored in lower case)
OwnerOfEmail(email) == {u \in pre.users : u.email = Lowercase(email)}

InvalidLogin == Reply(401, "Invalid email or password")

\* C6 as stated: a login whose password does not match the stored hash of the
\* user with that email (a request that carries no password matches no hash) is
\* answered 401 without a token; a login for an email of no stored user gets the
\* very same response; a token is issued only when the user exists and the
\* password matches.
C6_EveryMismatchRejected ==
    Answered("login") =>
      /\ \A u \in OwnerOfEmail(req.body.email) :
           u.password.of # req.body.password => res = InvalidLogin
      /\ OwnerOfEmail(req.body.email) = {} => res = InvalidLogin
      /\ (res.token # NoToken \/ issued # pre.issued)
           => \E u \in OwnerOfEmail(req.body.email) :
                /\ u.password.alg = "bcrypt"
                /\ u.password.of = req.body.password
                /\ res.token.id = u.id

\* C6 for requests that carry a password: what holds of the code
C6_LoginRejections ==
    Answered("login") =>
      /\ \A u \in OwnerOfEmail(req.body.email) :
           (req.body.password # Absent /\ u.password.of # req.body.password)
             => res = InvalidLogin
      /\ OwnerOfEmail(req.body.email) = {} => res = InvalidLogin
      /\ (res.token # NoToken \/ issued # pre.issued)
           => \E u \in OwnerOfEmail(req.body.email) :
                /\ u.password.alg = "bcrypt"
                /\ u.password.of = req.body.password
                /\ res.token.id = u.id

\* a login without a password for the email of a stored user: bcrypt.compare
\* throws and the answer is 500, not the 401 an unknown email gets
C6_Witness ==
    /\ Answered("login")
    /\ OwnerOfEmail(req.body.email) # {}
    /\ req.body.password = Absent
    /\ res.status = 500

\* the created products that a getProductById for req.param is about
CreatedUntouched(id) == {c \in created : c.untouched /\ c.view.id = id}

SameListing(a, b) ==
    /\ a.name = b.name
    /\ a.details = b.details
    /\ a.category = b.category
    /\ a.quantity = b.quantity
    /\ a.expiryEstimate = b.expiryEstimate
    /\ a.status = b.status

\* C7 as stated: after createProduct answered 201 with a product, a
\* getProductById for its id, with no update or delete of it in between, answers
\* 200 with a product whose seller, name, description, category, quantity, unit,
\* price, harvestDate, expiryEstimate, location and status equal the created
\* product's, the status being 'available'.
C7_RoundTripSellerIncluded ==
    Answered("getProductById") =>
      \A c \in CreatedUntouched(req.param) :
        /\ res.status = 200
        /\ Len(res.data) = 1
        /\ SameListing(res.data[1], c.view)
        /\ res.data[1].seller = c.view.seller
        /\ res.data[1].status = "available"

\* C7 amended: the same, but for seller: getProductById answers with the seller
\* populated, that is the id and name of the stored user the created product's
\* seller refers to, or null when no stored user has that id.
C7_RoundTripSellerPopulated ==
    Answered("getProductById") =>
      \A c \in CreatedUntouched(req.param) :
        /\ res.status = 200
        /\ Len(res.data) = 1
        /\ SameListing(res.data[1], c.view)
        /\ res.data[1].id = c.view.id
        /\ res.data[1].status = "available"
        /\ \A u \in users :
             u.id = c.view.seller.ref => res.data[1].seller = [id |-> u.id, name |-> u.name]
        /\ (\A u \in users : u.id # c.view.seller.ref) => res.data[1].seller = Null

C7_Witness ==
    /\ Answered("getProductById")
    /\ CreatedUntouched(req.param) # {}
    /\ res.status = 200
    /\ res.data[1].name = "rice"

\* C8: a deleteProduct for a stored product whose seller is not the caller is
\* answered 403 and the product stays as it was; a product leaves the store only
\* through a deleteProduct for it whose caller is its seller.  The caller is the
\* identity the handler reads, the user-id header.
C8_DeleteOnlyBySeller ==
    /\ (Answered("deleteProduct") /\ req.uid # Absent
          /\ \E q \in pre.products : q.id = req.param /\ q.seller # req.uid)
         => (res.status = 403 /\ products = pre.products)
    /\ \A q \in pre.products :
         (\A p \in products : p.id # q.id)
           => /\ Answered("deleteProduct")
              /\ req.param = q.id
              /\ req.uid = q.seller
              /\ res.status = 200

C8_Witness ==
    /\ Answered("deleteProduct")
    /\ req.uid # Absent
    /\ \E q \in pre.products : q.id = req.param /\ q.seller # req.uid
    /\ res.status = 403

\* C10 as stated: for as long as a product is stored, its status is the status
\* it was created with.
C10_StatusNeverChanges ==
    \A p \in products : \A c \in created : c.view.id = p.id => p.status = c.view.status

\* C10 amended: a product is created 'available', and its status changes only
\* through an answered updateProduct for it, sent with its seller as caller,
\* whose body carries a status: the product then has the body's status.  No
\* other request changes it.
C10_StatusChangesOnlyByUpdate ==
    /\ \A c \in created : c.view.status = "available"
    /\ \A p \in products : \A q \in pre.products :
         (p.id = q.id /\ p.status # q.status)
           => /\ Answered("updateProduct")
              /\ req.param = p.id
              /\ req.uid = q.seller
              /\ req.body.status = p.status
              /\ res.status = 200

C10_Witness ==
    /\ Answered("updateProduct")
    /\ \E p \in products : \E c \in created :
         c.view.id = p.id /\ p.status = "sold" /\ c.view.status = "available"

\* C9: for every stored analytics record that is not public and every caller
\* (a request with a user-id header) not on its restrictedTo list: getAnalytics
\* does not list the record, and getAnalyticsById and exportAnalyticsData for it
\* answer 403 and carry nothing of it; whatever creates, updates and deletes
\* came before.
C9_RestrictedInvisible ==
    \A a \in analytics :
      (~a.public /\ stage = "done" /\ req.uid # Absent
         /\ \A i \in 1..Len(a.restrictedTo) : a.restrictedTo[i] # req.uid)
        => /\ Answered("getAnalytics")
                => \A i \in 1..Len(res.data) : res.data[i].id # a.id
           /\ (Answered("getAnalyticsById") /\ req.param = a.id)
                => (res.status = 403 /\ res.data = <<>>)
           /\ (Answered("exportAnalyticsData") /\ req.param = a.id)
                => (res.status = 403 /\ res.data = <<>>)

C9_Witness ==
    /\ Answered("exportAnalyticsData")
    /\ req.uid = "U9"
    /\ res.status = 403
    /\ \E a \in analytics :
         a.id = req.param /\ ~a.public /\ a.content = "c2" /\ a.restrictedTo = <<"U3">>

\* the answers are the same; the scores of getDemandForecasts are random draws
\* and are left out of the comparison
SameAnswer(route, a, b) ==
    IF route = "getDemandForecasts"
    THEN a.status = b.status /\ a.message = b.message /\ Len(a.data) = Len(b.data)
    ELSE a = b

\* C11: in the vendor handlers other than getProductById and in all NGO
\* handlers the caller is the user-id header and not the token's subject: two
\* requests that arrive at the same stored data with the same user-id header,
\* path, query and body and with valid tokens of the router's role get the same
\* answer and leave the same stored data, whoever the tokens belong to; and a
\* request with such a token and no user-id header is answered 401.
C11_IdentityFromHeader ==
    (stage = "done" /\ req.route \in HeaderIdentityRoutes
       /\ trace[Len(trace)] = req.route) =>
      /\ req.uid = Absent => (res.status = 401 /\ AreaStores = AreaStoresBefore)
      /\ \A k \in kept :
           (k.request = RequestProper /\ k.before = AreaStoresBefore)
             => (SameAnswer(req.route, k.res, res) /\ k.after = AreaStores)

\* the second vendor, with the first vendor's id in the header, changes the
\* first vendor's product exactly as the first vendor did
C11_Witness ==
    /\ stage = "done"
    /\ req.route = "updateProduct"
    /\ res.status = 200
    /\ req.auth.tok.id # req.uid
    /\ AreaStores # AreaStoresBefore
    /\ \E k \in kept :
         /\ k.request = RequestProper /\ k.before = AreaStoresBefore
         /\ k.subject # req.auth.tok.id
         /\ k.after = AreaStores

\* the request in the pipeline carries a record its schema refuses, or makes an
\* operation of its handler throw: stated on the request and on the stores at
\* its arrival
FarmOfCaller == {f \in pre.farms : \E u \in reqUser : f.owner = u.id}

RecordRefused ==
    \/ /\ req.route = "register"
       /\ ~\E u \in pre.users : u.email = Lowercase(req.body.email)
       /\ \/ req.body.name = Absent
          \/ req.body.password = Absent
          \/ req.body.role \notin UserRole \cup {Absent}
    \/ /\ req.route = "login"
       /\ \E u \in pre.users : u.email = Lowercase(req.body.email)
       /\ req.body.password = Absent
    \/ /\ req.route = "updateProfile"
       /\ req.body.email # Absent
       /\ \E u \in pre.users, c \in reqUser :
            u.id # c.id /\ u.email = Lowercase(req.body.email)
    \/ /\ req.route = "createProduct"
       /\ req.uid # Absent
       /\ \/ req.uid = "zz"
          \/ req.body.details = Absent
          \/ req.body.category \notin ProductCategory
          \/ req.body.quantity < 0
    \/ /\ req.route = "createAnalytics"
       /\ req.uid # Absent
       /\ \/ req.body.accessRights = <<>>
          \/ req.body.content = Absent
          \/ req.body.type \notin AnalyticsType
    \/ /\ req.route = "updateFarmProfile"
       /\ FarmOfCaller = {}
       /\ req.body.name = Absent \/ req.body.details = Absent
    \/ /\ req.route = "addCrop"
       /\ FarmOfCaller # {}
       /\ req.body.name = Absent \/ req.body.rest = Absent
    \/ /\ req.route = "updateCrop"
       /\ \E f \in FarmOfCaller : \E i \in 1..Len(f.crops) : f.crops[i].id = req.param
       /\ req.body.name = ""
    \/ /\ req.route = "requestNewPrediction"
       /\ FarmOfCaller # {}
       /\ req.body.cropName = Absent \/ req.body.cropArea = Absent

ServerErrorMessages ==
    {"Server error", "Server error during registration", "Server error during login",
     "Server error updating profile", "Server error updating farm profile",
     "Server error adding crop", "Server error updating crop",
     "Server error requesting new prediction"}

\* C12: a handler whose request carries a record the schema refuses (a
\* missing required field, a value outside an enum, a negative quantity, an id
\* that cannot be cast) or makes one of its operations throw answers 500 with
\* its generic "Server error" message and nothing else, never 400, and the
\* collections are as they were when the request arrived: the record is not
\* stored.  This holds for createProduct, createAnalytics, register and
\* updateFarmProfile and for the other handlers that write.
C12_FailuresAnswer500 ==
    (stage = "done" /\ Answered(req.route) /\ RecordRefused)
        => /\ res.status = 500
           /\ res.message \in ServerErrorMessages
           /\ res.data = <<>> /\ res.token = NoToken
           /\ Stores = pre

\* createProduct, createAnalytics, register and updateFarmProfile have each
\* answered a request whose record the schema refuses
C12_Witness ==
    /\ stage = "done" /\ Answered("createProduct") /\ RecordRefused
    /\ req.uid = "U2" /\ req.body.category = "bogus"
    /\ res.status = 500

C12_WitnessAnalytics ==
    stage = "done" /\ Answered("createAnalytics") /\ RecordRefused /\ res.status = 500

C12_WitnessRegister ==
    stage = "done" /\ Answered("register") /\ RecordRefused /\ res.status = 500

C12_WitnessFarm ==
    stage = "done" /\ Answered("updateFarmProfile") /\ RecordRefused /\ res.status = 500

\* the stored user a register or updateProfile response is about
UserOfResponse(us) == {u \in us : u.id = res.data[1].id}

\* C13: every stored password is a salted bcrypt hash, never the plaintext:
\* after a successful register it is the hash of the password registered with,
\* after a successful updateProfile it is the hash of the new password when the
\* request carried one and the stored hash otherwise; and no response of
\* register, login, getProfile or updateProfile has a password field.
C13_PasswordsHashedAndHidden ==
    /\ \A u \in users : u.password \in [alg : {"bcrypt"}, salt : Salts, of : Passwords]
    /\ (Answered("register") /\ res.status = 201)
           => \E u \in UserOfResponse(users) : u.password.of = req.body.password
    /\ (Answered("updateProfile") /\ res.status = 200)
           => \E u \in UserOfResponse(users), o \in UserOfResponse(pre.users) :
                IF req.body.password # Absent
                THEN u.password.of = req.body.password
                ELSE u.password = o.password
    /\ (stage = "done" /\ req.route \in UserRoutes)
           => \A i \in 1..Len(res.data) : "password" \notin DOMAIN res.data[i]

\* updateProfile has replaced the password a user registered with
C13_Witness ==
    /\ Answered("updateProfile") /\ res.status = 200
    /\ req.body.password = "pw2"
    /\ \E u \in UserOfResponse(users), o \in UserOfResponse(pre.users) :
         u.password.of = "pw2" /\ o.password.of = "pw1"

\* getProfile has answered with the stored user
C13_WitnessProfile ==
    Answered("getProfile") /\ res.status = 200 /\ res.data # <<>>

\* the request in the pipeline presented the token in a well-formed header and
\* protect has decided on it
Presented(t) ==
    /\ req # NoReq
    /\ Protected(req.route)
    /\ req.auth = BearerHeader(t)
    /\ stage \in {"handler", "done"}

\* C14: the token register, login or updateProfile answers with is signed for
\* the identifier and role of the user in the response, a stored user; when a
\* signed token is presented to protect before its expiry the request goes on
\* with exactly {id, role} of that token attached, and when it is presented at
\* or after its expiry protect answers 401 and attaches nothing.
C14_TokenRoundTrip ==
    /\ (stage = "done" /\ req.route \in {"register", "login", "updateProfile"}
          /\ res.token # NoToken)
           => /\ res.token \in issued
              /\ res.token.id = res.data[1].id /\ res.token.role = res.data[1].role
              /\ \E u \in users : u.id = res.token.id /\ u.role = res.token.role
    /\ \A t \in issued :
         Presented(t)
           => IF now < t.exp
              THEN /\ reqUser = {[id |-> t.id, role |-> t.role]}
                   /\ trace[1] = "protect"
                   /\ res.status # 401
              ELSE /\ reqUser = {}
                   /\ trace = <<"protect">>
                   /\ res = Reply(401, "Not authorized, invalid token")

\* a token signed for a registered vendor was accepted before its expiry
C14_Witness ==
    \E t \in issued :
      /\ Presented(t) /\ now < t.exp /\ t.role = "vendor"
      /\ reqUser = {[id |-> t.id, role |-> "vendor"]}
      /\ Answered("getProfile") /\ res.status = 200

\* a signed token was refused after its expiry
C14_WitnessExpired ==
    \E t \in issued : Presented(t) /\ now >= t.exp /\ res.status = 401

\* the duration the configuration documents, in seconds: '7d' is seven days,
\* and thirty days when JWT_EXPIRES_IN is not set
DocumentedDuration(env) ==
    IF env = <<>> THEN 30 * SecondsPerDay
    ELSE IF env = <<"7", "d">> THEN 7 * SecondsPerDay
    ELSE ParseInt(env)

\* C18: a signed token presented to protect is accepted at every moment before
\* its issue time plus the configured JWT_EXPIRES_IN duration ('7d' being seven
\* days, thirty days when unset) and rejected from then on.
C18_LifetimeAsConfigured ==
    \A t \in issued :
      Presented(t)
        => IF now < t.iat + DocumentedDuration(jwtExpiresIn)
           THEN reqUser = {[id |-> t.id, role |-> t.role]} /\ res.status # 401
           ELSE reqUser = {} /\ res.status = 401

\* JWT_EXPIRES_IN is 7d and a token is refused seven seconds after it was signed
C18_Witness ==
    /\ jwtExpiresIn = <<"7", "d">>
    /\ now = 7
    /\ \E t \in issued :
         /\ t.iat = 0 /\ Presented(t)
         /\ res = Reply(401, "Not authorized, invalid token")

\* what holds of the lifetime: thirty days when JWT_EXPIRES_IN is not set, and
\* as many seconds as the leading digits of JWT_EXPIRES_IN say when it is set
C18_LifetimeAsParsed ==
    \A t \in issued :
      /\ t.exp - t.iat = IF jwtExpiresIn = <<>> THEN 30 * SecondsPerDay
                         ELSE ParseInt(jwtExpiresIn)
      /\ Presented(t) => (now < t.exp <=> res.status # 401)

\* the constraints of productSchema on a stored product
ProductWithinSchema(p) ==
    /\ p.status \in ProductStatus
    /\ p.category \in ProductCategory
    /\ p.quantity >= 0
    /\ p.name \notin {Absent, ""} /\ p.details # Absent /\ p.seller # Absent

\* the constraints of the other schemas on the stored users, analytics, farms
\* and predictions
OthersWithinSchema ==
    /\ \A u \in users : u.name # Absent /\ u.email = Lowercase(u.email)
                        /\ u.role \in UserRole
    /\ \A a \in analytics : a.content # Absent /\ a.type \in AnalyticsType
    /\ \A f \in farms :
         /\ f.name \notin {Absent, ""} /\ f.details # Absent
         /\ \A i \in 1..Len(f.crops) :
              f.crops[i].name \notin {Absent, ""} /\ f.crops[i].rest # Absent
    /\ \A y \in predictions : y.cropName \notin {Absent, ""} /\ y.cropArea # Absent

\* C15: every stored record satisfies the constraints of its schema; in
\* particular every stored product has a status and a category of the enums, a
\* quantity that is not negative and its required fields, also after
\* updateProduct.
C15_StoredRecordsValid ==
    /\ \A p \in products : ProductWithinSchema(p)
    /\ OthersWithinSchema

\* updateProduct has answered 200 and the stored product has a status outside
\* the enum
C15_Witness ==
    /\ Answered("updateProduct") /\ res.status = 200
    /\ req.body.status = "bogus"
    /\ \A p \in pre.products : ProductWithinSchema(p)
    /\ \E p \in products : p.id = req.param /\ p.status = "bogus"

\* what holds: the records of the other collections are within their schemas,
\* and so is every product that no updateProduct has written
C15_ValidButForUpdateProduct ==
    /\ OthersWithinSchema
    /\ \A p \in products :
         (\E c \in created : c.view.id = p.id /\ c.untouched) => ProductWithinSchema(p)

\* the routes whose path carries a record id
ProductIdRoutes == {"getProductById", "updateProduct", "deleteProduct"}

AnalyticsIdRoutes ==
    {"getAnalyticsById", "updateAnalytics", "deleteAnalytics", "exportAnalyticsData"}

CropIdRoutes == {"updateCrop", "deleteCrop"}

\* the handler of a route of the set was reached by an identified caller and
\* has answered a request whose path parameter is not an ObjectId
InvalidIdAnswered(routes) ==
    /\ stage = "done" /\ req.route \in routes /\ Answered(req.route)
    /\ req.param = "zz"
    /\ req.route \in HeaderIdentityRoutes => req.uid # Absent

\* C16: the handler of every route with a productId, analyticsId or cropId in
\* its path, reached after protect and the role gate by an identified caller,
\* answers 400 when the parameter is not a valid ObjectId, and the stored data
\* are as they were.
C16_InvalidIdAnswered400 ==
    InvalidIdAnswered(ProductIdRoutes \cup AnalyticsIdRoutes \cup CropIdRoutes)
        => res.status = 400 /\ Stores = pre

\* deleteCrop has answered 200 to a cropId that is not an ObjectId
C16_Witness ==
    /\ InvalidIdAnswered({"deleteCrop"})
    /\ res = Reply(200, "Crop removed successfully")
    /\ Stores = pre

\* updateCrop has answered 404 to a cropId that is not an ObjectId
C16_WitnessUpdateCrop ==
    InvalidIdAnswered({"updateCrop"}) /\ res = Reply(404, "Crop not found")

\* what holds: the product and analytics routes answer 400 and change nothing;
\* the crop routes make no check, change nothing, and answer 404 (no farm, or
\* updateCrop finding no such crop) or 200 (deleteCrop)
C16_ProductAndAnalyticsIdsValidated ==
    /\ InvalidIdAnswered(ProductIdRoutes \cup AnalyticsIdRoutes)
           => /\ res.status = 400
              /\ res.message = IF req.route \in ProductIdRoutes
                               THEN "Invalid product ID" ELSE "Invalid analytics ID"
              /\ Stores = pre
    /\ InvalidIdAnswered(CropIdRoutes)
           => /\ Stores = pre
              /\ res.status = IF FarmOfCaller = {} \/ req.route = "updateCrop"
                              THEN 404 ELSE 200

\* the farms of an owner, and the predictions made for them
FarmsOf(fs, owner) == {f \in fs : f.owner = owner}

PredictionsOf(ys, fs, owner) == {y \in ys : \E f \in FarmsOf(fs, owner) : y.farm = f.id}

\* a farmer handler has answered the caller protect attached
FarmerAnswered ==
    /\ stage = "done" /\ req.route \in FarmerRoutes /\ Answered(req.route)
    /\ reqUser # {}

\* C19: a farmer handler acts on the farm of its caller and on no other: the
\* farm getFarmProfile and updateFarmProfile answer with is owned by the caller,
\* the predictions getYieldPredictions and requestNewPrediction answer with are
\* of the caller's farm, the crop addCrop and updateCrop answer with is a crop
\* of the caller's farm, and after every farmer handler the farms of the other
\* owners and their predictions are as they were when the request arrived.
C19_OwnFarmOnly ==
    FarmerAnswered
      => LET c == Caller
             own == FarmsOf(farms, c)
             others == {u.id : u \in users} \ {c}
         IN  /\ \A o \in others :
                  /\ FarmsOf(farms, o) = FarmsOf(pre.farms, o)
                  /\ PredictionsOf(predictions, farms, o)
                       = PredictionsOf(pre.predictions, pre.farms, o)
             /\ (req.route \in {"getFarmProfile", "updateFarmProfile"}
                   /\ res.status \in {200, 201})
                    => res.data[1] \in own
             /\ (req.route \in {"getYieldPredictions", "requestNewPrediction"}
                   /\ res.status \in {200, 201})
                    => \A i \in 1..Len(res.data) :
                         res.data[i] \in PredictionsOf(predictions, farms, c)
             /\ (req.route \in {"addCrop", "updateCrop"} /\ res.status \in {200, 201})
                    => \E f \in own : \E i \in 1..Len(f.crops) : f.crops[i] = res.data[1]

\* a farmer asked to delete the crop of another farmer's farm, and that farm
\* still has it
C19_Witness ==
    /\ FarmerAnswered /\ req.route = "deleteCrop" /\ res.status = 200
    /\ \E f \in farms :
         /\ f.owner # Caller
         /\ \E i \in 1..Len(f.crops) : f.crops[i].id = req.param

\* a farmer read the predictions of a farm while another farm has predictions
C19_WitnessPredictions ==
    /\ FarmerAnswered /\ req.route = "getYieldPredictions" /\ res.status = 200
    /\ \E o \in {u.id : u \in users} \ {Caller} :
         PredictionsOf(predictions, farms, o) # {}

\* C17: no two stored users have the same email, whatever the order in which
\* the lookups and the writes of the register and updateProfile requests in
\* flight are taken.
C17_EmailsUnique ==
    \A u \in users, v \in users : u.email = v.email => u.id = v.id

\* two register requests for one email both passed the lookup; one was stored,
\* the other refused by the index
C17_Witness ==
    \E p \in Procs, q \in Procs :
      /\ procs[p].route = "register" /\ procs[q].route = "register"
      /\ Lowercase(procs[p].body.email) = Lowercase(procs[q].body.email)
      /\ procs[p].res.status = 201
      /\ procs[q].res = Reply(500, "Server error during registration")

\* two updateProfile requests of two users for one email: one saved, one refused
C17_WitnessUpdateProfile ==
    \E p \in Procs, q \in Procs :
      /\ procs[p].route = "updateProfile" /\ procs[q].route = "updateProfile"
      /\ procs[p].caller # procs[q].caller
      /\ procs[p].body.email = procs[q].body.email
      /\ procs[p].res.status = 200
      /\ procs[q].res = Reply(500, "Server error updating profile")

\* C20: every user owns at most one farm, whatever the order in which the
\* lookups and the writes of the updateFarmProfile requests in flight are
\* taken; a request that creates the farm answers 201 with an empty crop list.
C20_AtMostOneFarm ==
    /\ \A u \in users : Cardinality(FarmsOf(farms, u.id)) <= 1
    /\ \A p \in Procs :
         (procs[p].route = "updateFarmProfile" /\ procs[p].res.status = 201)
             => procs[p].res.data[1].crops = <<>>

\* two updateFarmProfile requests of one farmer were both answered 201 and the
\* farmer owns two farms
C20_Witness ==
    \E p \in Procs, q \in Procs :
      /\ p # q
      /\ procs[p].route = "updateFarmProfile" /\ procs[q].route = "updateFarmProfile"
      /\ procs[p].caller = procs[q].caller
      /\ procs[p].res.status = 201 /\ procs[q].res.status = 201
      /\ \E c \in procs[p].caller : Cardinality(FarmsOf(farms, c.id)) = 2

\* what holds when the requests are handled one after the other: at most one
\* farm per owner; updateFarmProfile answers 201 with an empty crop list when
\* the caller had no farm and 200 with that same farm when the caller had one
C20_FindOrCreateInSequence ==
    /\ \A u \in users : Cardinality(FarmsOf(farms, u.id)) <= 1
    /\ (FarmerAnswered /\ req.route = "updateFarmProfile" /\ res.status \in {200, 201})
           => IF FarmsOf(pre.farms, Caller) = {}
              THEN res.status = 201 /\ res.data[1].crops = <<>>
              ELSE /\ res.status = 200
                   /\ \E f \in FarmsOf(pre.farms, Caller) : f.id = res.data[1].id

\* C21: after updateAnalytics has answered 200 to caller u, the stored record
\* is public or lists u in restrictedTo, whatever accessRights the body
\* carried.
C21_UpdaterKeepsAccess ==
    (Answered("updateAnalytics") /\ res.status = 200)
        => \E a \in analytics :
             /\ a.id = req.param
             /\ a.public \/ \E i \in 1..Len(a.restrictedTo) : a.restrictedTo[i] = req.uid

\* the body made the record private and listed another user only; the stored
\* list has the caller too
C21_Witness ==
    /\ Answered("updateAnalytics") /\ res.status = 200
    /\ req.body.accessRights = <<[public |-> FALSE, restrictedTo |-> << <<"U9">> >>]>>
    /\ req.uid = "U3"
    /\ \E a \in analytics :
         a.id = req.param /\ ~a.public /\ a.restrictedTo = <<"U9", "U3">>

\* the stored analytics record a request with an analyticsId is about
TargetAnalytics(as) == {a \in as : a.id = req.param}

\* C22: createAnalytics stores a record that is not public with the creator
\* appended to the list the body supplied, and a public one with an empty
\* list.  A caller on the list of a record is not refused (403) by
\* getAnalyticsById, updateAnalytics or deleteAnalytics.  A record with an empty
\* list -- so every record created public -- is stored unchanged after every
\* request, and every updateAnalytics and deleteAnalytics for it is answered 403.
C22_CreatorListedPublicFrozen ==
    /\ (Answered("createAnalytics") /\ res.status = 201)
           => \E a \in analytics :
                /\ a.id = res.data[1].id
                /\ a.public = req.body.accessRights[1].public
                /\ a.restrictedTo =
                       IF a.public THEN <<>>
                       ELSE Append(ArrayOr(req.body.accessRights[1].restrictedTo), req.uid)
    /\ (stage = "done" /\ Answered(req.route)
          /\ req.route \in {"getAnalyticsById", "updateAnalytics", "deleteAnalytics"})
           => \A a \in TargetAnalytics(pre.analytics) :
                (\E i \in 1..Len(a.restrictedTo) : a.restrictedTo[i] = req.uid)
                    => /\ res.status # 403
                       /\ req.route = "deleteAnalytics"
                            => res.status = 200 /\ a \notin analytics
    /\ stage = "done"
           => \A a \in pre.analytics :
                a.restrictedTo = <<>>
                    => /\ a \in analytics
                       /\ (Answered(req.route) /\ req.uid # Absent /\ req.param = a.id
                             /\ req.route \in {"updateAnalytics", "deleteAnalytics"})
                              => res.status = 403

\* the NGO asked to delete a public record with an empty list and was refused
C22_Witness ==
    /\ Answered("deleteAnalytics") /\ res.status = 403 /\ req.uid = "U3"
    /\ \E a \in TargetAnalytics(pre.analytics) :
         a.public /\ a.restrictedTo = <<>> /\ a \in analytics

\* the creator of a private record deleted it
C22_WitnessCreator ==
    /\ Answered("deleteAnalytics") /\ res.status = 200 /\ req.uid = "U3"
    /\ \E a \in TargetAnalytics(pre.analytics) :
         ~a.public /\ a.restrictedTo = <<"U9", "U3">> /\ a \notin analytics

\* the ids of the stored products with their sellers
SellerOf(ps) == {<<p.id, p.seller>> : p \in ps}

\* C23: the seller of every stored product is the seller createProduct
\* recorded for its id, and an updateProduct leaves the ids and the sellers of
\* the stored products as they were, whatever fields the body carries.
C23_SellerAndIdKept ==
    /\ \A p \in products :
         \E c \in created : c.view.id = p.id /\ c.view.seller = Ref(p.seller)
    /\ Answered("updateProduct") => SellerOf(products) = SellerOf(pre.products)

\* the seller updated the product with a body naming another seller and
\* another _id, and the product has its seller and id still
C23_Witness ==
    /\ Answered("updateProduct") /\ res.status = 200
    /\ req.body.seller = "U9" /\ req.body._id = "P2"
    /\ \E p \in products : p.id = req.param /\ p.id = "P1" /\ p.seller = req.uid

ProductIds(ps) == {q.id : q \in ps}

\* the request of process p was answered in this step
AnsweredNow(p, route) ==
    procs[p].route = route /\ procs[p].pc # "done" /\ procs'[p].pc = "done"

\* C24: when createProduct, updateProduct and deleteProduct requests are in
\* flight together, a step stores no product whose id was not stored before it,
\* but for the product a createProduct creates under a fresh id: a product that
\* was removed is never stored again.  When deleteProduct answers 'Product
\* removed' the product is not stored; an updateProduct whose write comes after
\* the removal answers 404 and one that answers 200 found the product stored.
C24_RemovedNeverStoredAgain ==
    [][/\ \A id \in ProductIds(products') \ ProductIds(products) :
            nextProduct' = nextProduct + 1 /\ id = ProductIdPool[nextProduct']
       /\ \A p \in Procs :
            /\ (AnsweredNow(p, "deleteProduct") /\ procs'[p].res.status = 200)
                   => /\ procs'[p].res.message = "Product removed"
                      /\ procs[p].param \notin ProductIds(products')
            /\ (AnsweredNow(p, "updateProduct") /\ procs[p].pc = "write")
                   => IF procs[p].param \in ProductIds(products)
                      THEN procs'[p].res.status = 200
                      ELSE /\ procs'[p].res = Reply(404, "Product not found after update")
                           /\ products' = products]_vars

\* a delete was acknowledged while an update of the same product had passed
\* its lookup; the update was answered 404 and the product is not stored
C24_Witness ==
    \E p \in Procs, q \in Procs :
      /\ procs[p].route = "deleteProduct" /\ procs[p].res = Reply(200, "Product removed")
      /\ procs[q].route = "updateProduct" /\ procs[q].param = procs[p].param
      /\ procs[q].res = Reply(404, "Product not found after update")
      /\ procs[p].param \notin ProductIds(products)

\* the prediction requestNewPrediction answered with, as it is stored
StoredPrediction == {y \in predictions : y.id = res.data[1].id}

C26_RecommendationsOfSchema ==
    (Answered("requestNewPrediction") /\ res.status = 201)
        => /\ res.data[1].recommendations = {"irrigationSchedule", "fertilizers"}
           /\ \E y \in StoredPrediction : y = res.data[1]

\* the farm of the caller when the request arrived, and now
FarmBefore == {f \in pre.farms : \E u \in reqUser : f.owner = u.id}

FarmNow(id) == {f \in farms : f.id = id}

\* the positions of the crops that do not have the id
Kept(crops, cropId) == {i \in 1..Len(crops) : crops[i].id # cropId}

\* C25: deleteCrop answers the success message whenever the caller has a
\* farm, also when no crop has the id; afterwards the farm has, in their order,
\* exactly the crops it had whose id is not the cropId, its other fields are as
\* they were, and every other farm is as it was.  When no crop has the id the
\* farm is unchanged, so a repeated deleteCrop changes nothing.
C25_DeleteCropExact ==
    (Answered("deleteCrop") /\ reqUser # {})
        => \A old \in FarmBefore :
             /\ res = Reply(200, "Crop removed successfully")
             /\ farms \ FarmNow(old.id) = pre.farms \ {old}
             /\ \E new \in FarmNow(old.id) :
                  /\ new.owner = old.owner /\ new.name = old.name
                  /\ new.details = old.details
                  /\ Len(new.crops) = Cardinality(Kept(old.crops, req.param))
                  /\ \A i \in 1..Len(new.crops) :
                       /\ new.crops[i].id # req.param
                       /\ \E j \in Kept(old.crops, req.param) :
                            /\ old.crops[j] = new.crops[i]
                            /\ Cardinality({k \in Kept(old.crops, req.param) : k < j})
                                 = i - 1
                  /\ Kept(old.crops, req.param) = 1..Len(old.crops) => new = old

\* the second of two crops was removed and the first is still there
C25_Witness ==
    /\ Answered("deleteCrop") /\ req.param = "K2"
    /\ res = Reply(200, "Crop removed successfully")
    /\ \E old \in FarmBefore : \E new \in FarmNow(old.id) :
         /\ Len(old.crops) = 2 /\ old.crops[2].id = "K2"
         /\ new.crops = <<old.crops[1]>>

\* a deleteCrop for a crop that was removed before: success, farm unchanged
C25_WitnessRepeated ==
    /\ Answered("deleteCrop") /\ req.param = "K1"
    /\ res = Reply(200, "Crop removed successfully")
    /\ \E old \in FarmBefore :
         /\ \A i \in 1..Len(old.crops) : old.crops[i].id # "K1"
         /\ old \in farms

\* the entries of the spoilage report for a product
EntriesFor(id) == {i \in 1..Len(res.data) : res.data[i].productId = id}

\* the risk level and the score (in tenths) the thresholds give for d days
LevelOfDays(d) ==
    CASE d < 3 -> <<"critical", 9>>
      [] 3 <= d /\ d < 7 -> <<"high", 7>>
      [] 7 <= d /\ d < 14 -> <<"medium", 4>>
      [] OTHER -> <<"low", 1>>

\* C27: for a caller whose user-id is an id, getSpoilageRisks answers with
\* exactly one entry for every stored product of that seller whose status is
\* not 'sold' and with no other entry; the entry's days are the whole days from
\* now to the expiry estimate, its level and score are critical (0.9) below 3
\* days, high (0.7) below 7, medium (0.4) below 14 and low (0.1) from 14 on, so
\* of two entries the one with fewer days never has the lower score.
C27_SpoilageRisks ==
    (Answered("getSpoilageRisks") /\ req.uid \in {"U2", "U9"})
        => /\ res.status = 200
           /\ \A p \in products :
                Cardinality(EntriesFor(p.id)) =
                    IF p.seller = req.uid /\ p.status # "sold" THEN 1 ELSE 0
           /\ \A i \in 1..Len(res.data) :
                \E p \in products :
                  LET e == res.data[i]
                      d == e.daysUntilExpiry
                  IN  /\ p.id = e.productId
                      /\ d * SecondsPerDay <= p.expiryEstimate - now
                      /\ p.expiryEstimate - now < (d + 1) * SecondsPerDay
                      /\ <<e.riskLevel, e.riskScore>> = LevelOfDays(d)
           /\ \A i \in 1..Len(res.data), j \in 1..Len(res.data) :
                res.data[i].daysUntilExpiry <= res.data[j].daysUntilExpiry
                    => res.data[i].riskScore >= res.data[j].riskScore

\* the report of a vendor with a sold product and two unsold ones, one of
\* them exactly three days from its expiry, while another seller has a product
C27_Witness ==
    /\ Answered("getSpoilageRisks") /\ req.uid = "U2" /\ res.status = 200
    /\ Len(res.data) = 2
    /\ \E i \in 1..2 : res.data[i].daysUntilExpiry = 3 /\ res.data[i].riskLevel = "high"
    /\ \E p \in products : p.seller = "U2" /\ p.status = "sold"
    /\ \E p \in products : p.seller = "U9"

\* the application has answered the request
AppAnswered == stage = "done" /\ req.route = "app"

UnderApi(path) == HasPrefix(path, <<"api">>)

\* a route of one of the four routers is for the request
ApiRouteFor(r) ==
    \E router \in Routers :
        /\ HasPrefix(r.path, MountPath(router))
        /\ RouteMatches(r.method, BelowMount(r.path, router), RouterTable(router))

\* a route app.ts registers is for the request: one of a router, the health
\* check, or in production the frontend's routes
RegisteredRouteFor(r, env) ==
    \/ ApiRouteFor(r)
    \/ r.method = "GET" /\ r.path = <<>>
    \/ env = "production" /\ r.method = "GET"

\* the request is stopped before the routes are tried: a preflight, a body
\* that does not parse, or a gated router that refuses the caller
StoppedEarly(r, t) ==
    \/ r.method = "OPTIONS"
    \/ r.malformed
    \/ \E router \in Routers :
          /\ HasPrefix(r.path, MountPath(router))
          /\ RouterOutcome(router, r, t).kind = "send"

\* C28: in production every GET for a path that is not under /api and is not
\* '/' is served the frontend's index.html, and in every mode a request that
\* reaches the routes and matches no registered one is answered 404 'API
\* endpoint not found'
C28_FrontendServedElse404 ==
    AppAnswered =>
        /\ (nodeEnv = "production" /\ req.method = "GET" /\ ~UnderApi(req.path)
              /\ req.path # <<>>)
             => res = IndexHtml
        /\ (~StoppedEarly(req, now) /\ ~RegisteredRouteFor(req, nodeEnv))
             => res = NotFound

\* C28, a production GET for /dashboard is answered 404 by the handler
\* registered before the frontend's routes
C28_Witness ==
    /\ AppAnswered
    /\ nodeEnv = "production"
    /\ req.method = "GET" /\ req.path = <<"dashboard">> /\ ~req.malformed
    /\ res = NotFound
    /\ trace[Len(trace)] = "notFound"

\* C28, what the order of registration gives: in every mode the 404 handler
\* answers whatever reaches it, the layers registered after it are never
\* tried, and index.html is never served
C28_NotFoundBeforeFrontend ==
    AppAnswered =>
        /\ \A i \in 1..Len(trace) : trace[i] \notin {"static", "catchAll", "finalhandler"}
        /\ res # IndexHtml
        /\ (~StoppedEarly(req, now) /\ ~ApiRouteFor(req)
              /\ ~(req.method = "GET" /\ req.path = <<>>))
             => res = NotFound

\* the request is with a middleware or a controller
InPipeline == stage \in {"protect", "authorize", "handler"}

\* C29: every request is answered exactly once: while the request is in the
\* pipeline no response has been sent, a response that was sent is not
\* replaced by another, and a request in the pipeline is eventually answered,
\* whatever the token check, the role check, the validation of the
\* identifier and the store call give
C29_AnsweredExactlyOnce ==
    /\ [](stage # "done" => res = NoRes)
    /\ [](stage = "done" => res # NoRes /\ res.status \in 200..599)
    /\ [][res # NoRes => res' = NoRes /\ stage' = "idle"]_vars
    /\ (InPipeline ~> stage = "done")

\* C29, a request passed the token check and the role gate, its controller
\* met a failing store call and answered 500
C29_Witness ==
    /\ stage = "done"
    /\ req.route \in GatedRoutes
    /\ trace = <<"protect", "authorize", req.route>>
    /\ res.status = 500

====
